---- MODULE Spec2Model ----
(***************************************************************************)
(* Grid search over strategy parameters (tradeexecutor/backtest/           *)
(* grid_search.py): the combination builder prepare_grid_combinations,     *)
(* the result cache GridSearchResult.has_result / load / save, and the     *)
(* runner run_grid_combination / perform_grid_search, sequential or on a   *)
(* thread pool; and the indicator storage and calculation engine that      *)
(* tests/backtest/test_indicator.py exercises.                             *)
(***************************************************************************)
EXTENDS Integers, Sequences, FiniteSets, TLC

(***************************************************************************)
(* Bounds of the model.                                                    *)
(***************************************************************************)
\* Candidate values per parameter of a grid handed to prepare_grid_combinations alone.
MaxValues == 2
\* Candidate values of the parameter of a grid that is searched: one task each.
MaxTasks == 2
\* Thread pool sizes tried: max_workers in 1..MaxWorkers.
MaxWorkers == 2
\* perform_grid_search invocations per behaviour.
MaxRuns == 2
\* calculate_and_load_indicators invocations per behaviour.
MaxIndicatorRuns == 3
\* Token amounts, on-chain and in the ledger, are in 0..MaxAmount.
MaxAmount == 2
\* correct_accounts invocations per behaviour.
MaxCorrections == 2
\* Balance update ids of the events handed to add_balance_update_event.
MaxBalanceUpdateId == 2
\* Length of the series handed to contains_cross_over and contains_cross_under;
\* lookback_period is in 0..MaxSeries + 1.
MaxSeries == 4
MaxTrades == 2
MaxClock == 2

VARIABLES
    parameters,     \* the grid: a sequence of [name, values], the dict in insertion order
    result_path,    \* the result root handed to prepare_grid_combinations
    dirs,           \* file system: the directories that exist (resolved paths)
    pickles,        \* file system: result.pickle by the directory that holds it
    prep,           \* outcome of the last prepare_grid_combinations call
    combinations,   \* the list it returned
    phase,          \* perform_grid_search: "idle", "running", "returned", "raised"
    max_workers,    \* its max_workers argument
    task_args,      \* its task list: the combination of every task
    run,            \* number of perform_grid_search invocations so far
    tpc,            \* per task (one per list entry): position in run_grid_combination
    tres,           \* per task: the result it holds or returned
    texc,           \* per task: the exception it raised
    calls,          \* per task: invocations of grid_search_worker in this search
    order,          \* task indices in the order they completed
    error,          \* the exception perform_grid_search raised
    prev            \* the previous perform_grid_search invocation: how it ended, the
                    \* results it returned, the tasks whose artifact this one
                    \* found on disk, and the files on disk when this one began

\* The indicator engine.
VARIABLES
    strategy_universe,  \* the trading universe of the session: its pairs and date range
    indicator_storage,  \* the IndicatorStorage of the session: path and universe_key
    create_indicators,  \* the callback: the registrations it makes, in order
    indicator_set,      \* the IndicatorSet the last create_indicators call filled
    parquet,            \* file system: the indicator artifacts by path
    ind_phase,          \* calculate_and_load_indicators: "idle", "running", "returned"
    ind_workers,        \* its max_workers argument
    ind_keys,           \* its (pair, definition) keys
    ind_pc,             \* per key: "load", "compute", "save" or "done"
    indicator_result,   \* per key: the IndicatorResult
    ind_error,          \* the exception calculate_and_load_indicators raised
    reader,             \* a concurrent reader: the artifact path has(key) found, or <<>>
    observed,           \* what its load saw: "none", "complete" or "partial"
    ind_run,            \* number of calculate_and_load_indicators invocations so far
    ind_prev            \* the previous invocation of the session: how it ended, its
                        \* results and whether it began on an empty storage, and
                        \* whether this one began on an empty storage

\* Account corrections.
VARIABLES
    state,          \* the State: portfolio (reserve position, trading position,
                    \* next_balance_update_id) and sync.accounting
    onchain,        \* what sync_model.fetch_onchain_balances returns now
    calc,           \* the generator of calculate_account_corrections
    correct,        \* the generator of correct_accounts
    transfers,      \* the assets transfer_away_assets_without_position sent away
    reserve_call    \* the last add_balance_update_event call and its outcome

\* Crossover detection.
VARIABLES
    series1,            \* the first pandas.Series: its values, oldest first
    series2,            \* the second pandas.Series
    lookback_period,    \* the lookback_period argument
    must_return_index,  \* the must_return_index argument
    crossing            \* the last call: which function, and what it returned

\* Strategy modules.
VARIABLES
    strategy_exports,   \* what running the module file leaves: [name, value] in
                        \* the order of definition
    loaded              \* the last read_strategy_module call: what it returned or raised

\* Trade execution on Uniswap v2.
VARIABLES
    trades,         \* the TradeExecution objects of the portfolio, by trade id
    hot_wallet,     \* the HotWallet: its current_nonce
    execution       \* the execute_trades call: its arguments, the step it is at,
                    \* the approvals, the broadcasted trades and the receipts

grid_vars == <<parameters, result_path, dirs, pickles, prep, combinations, phase,
               max_workers, task_args, run, tpc, tres, texc, calls, order, error, prev>>

indicator_vars == <<strategy_universe, indicator_storage, create_indicators, indicator_set,
                    parquet, ind_phase, ind_workers, ind_keys, ind_pc, indicator_result,
                    ind_error, reader, observed, ind_run, ind_prev>>

\* What a step of the engine leaves alone besides the grid search.
session_vars == <<strategy_universe, indicator_storage, create_indicators, reader, observed>>

account_vars == <<state, onchain, calc, correct, transfers, reserve_call>>

crossover_vars == <<series1, series2, lookback_period, must_return_index, crossing>>

module_vars == <<strategy_exports, loaded>>

execution_vars == <<trades, hot_wallet, execution>>

component_vars == <<account_vars, crossover_vars, module_vars, execution_vars>>

\* What a step of the account corrections leaves alone.
outside_accounts == <<grid_vars, indicator_vars, crossover_vars, module_vars, execution_vars>>

\* What a crossover call leaves alone.
outside_crossover == <<grid_vars, indicator_vars, account_vars, module_vars, execution_vars>>

\* What reading a strategy module leaves alone.
outside_module == <<grid_vars, indicator_vars, account_vars, crossover_vars, execution_vars>>

\* What a step of the trade execution leaves alone.
outside_execution == <<grid_vars, indicator_vars, account_vars, crossover_vars, module_vars>>

vars == <<grid_vars, indicator_vars, component_vars>>

(***************************************************************************)
(* Python values that may sit in a grid. A value is its type, its number   *)
(* (int, float, bool) and its text (str).                                  *)
(***************************************************************************)
PyInt(n) == [type |-> "int", num |-> n, text |-> ""]
PyFloat(n) == [type |-> "float", num |-> n, text |-> ""]
PyStr(s) == [type |-> "str", num |-> 0, text |-> s]
PyBool(n) == [type |-> "bool", num |-> n, text |-> ""]
PyNone == [type |-> "NoneType", num |-> 0, text |-> ""]

\* Python's ==: numbers compare by value across int, float and bool.
PyEq(v, w) ==
    LET numeric == {"int", "float", "bool"} IN
    IF v.type \in numeric /\ w.type \in numeric THEN v.num = w.num
    ELSE v.type = w.type /\ v.text = w.text /\ v.num = w.num

DigitStr(n) ==
    CASE n = 0 -> "0" [] n = 1 -> "1" [] n = 2 -> "2" [] n = 3 -> "3" [] n = 4 -> "4"
      [] n = 5 -> "5" [] n = 6 -> "6" [] n = 7 -> "7" [] n = 8 -> "8" [] n = 9 -> "9"

\* format(value) inside an f-string, for the types to_path lets through.
PyFormat(v) ==
    CASE v.type = "int" -> DigitStr(v.num)
      [] v.type = "float" -> DigitStr(v.num) \o ".0"
      [] v.type = "str" -> v.text
      [] v.type = "bool" -> (IF v.num = 1 THEN "True" ELSE "False")
      [] OTHER -> "None"

Values == {PyInt(1), PyInt(2), PyStr("1"), PyFloat(1), PyBool(1), PyNone}
SearchValues == {PyInt(1), PyInt(2), PyStr("1")}

(***************************************************************************)
(* pathlib paths: absolute or relative, and the parts.                     *)
(***************************************************************************)
Path(abs, parts) == [abs |-> abs, parts |-> parts]

\* Path.joinpath: an absolute right operand replaces the left one.
joinpath(p, q) == IF q.abs THEN q ELSE Path(p.abs, p.parts \o q.parts)

Cwd == <<"/", "cwd">>

\* The directory a path names, from the process's working directory.
Resolve(p) == IF p.abs THEN <<"/">> \o p.parts ELSE Cwd \o p.parts

IsPrefix(s, t) == Len(s) <= Len(t) /\ SubSeq(t, 1, Len(s)) = s

Prefixes(s) == {SubSeq(s, 1, n) : n \in 1..Len(s)}

ResultRoots == {Path(TRUE, <<"res">>), Path(FALSE, <<"res">>), Path(FALSE, <<>>)}

(***************************************************************************)
(* GridParameter and GridCombination.                                      *)
(***************************************************************************)
GridParameter(name, value) == [name |-> name, value |-> value]

NotImplementedError == "NotImplementedError"

\* to_path testing the value with isinstance, which lets a bool through as an int.
to_path_isinstance(p) ==
    IF p.value.type \in {"float", "int", "str", "bool"}
    THEN p.name \o "=" \o PyFormat(p.value)
    ELSE NotImplementedError

to_path(p) ==
    IF p.value.type \in {"float", "int", "str"}
    THEN p.name \o "=" \o PyFormat(p.value)
    ELSE NotImplementedError

GridCombination(result_root, params) == [result_path |-> result_root, parameters |-> params]

NoCombination == GridCombination(Path(FALSE, <<>>), <<>>)

\* GridParameter.__eq__ over the tuples, as tuple equality applies it.
combination_eq(c, d) ==
    /\ Len(c.parameters) = Len(d.parameters)
    /\ \A k \in 1..Len(c.parameters) :
          /\ c.parameters[k].name = d.parameters[k].name
          /\ PyEq(c.parameters[k].value, d.parameters[k].value)

\* A hash that tells the types of equal numbers apart.
PyHash_typed(v) == [num |-> v.num, text |-> v.type \o ":" \o v.text]

\* Python's hash of a value: equal numbers of type int, float and bool hash alike.
PyHash(v) ==
    [num |-> IF v.type \in {"int", "float", "bool"} THEN v.num ELSE 0,
     text |-> IF v.type = "str" THEN v.text ELSE IF v.type = "NoneType" THEN "None" ELSE ""]

\* GridParameter.__hash__: the hash of the tuple (name, value), a function of the
\* hashes of its members.
GridParameter_hash(p) == <<PyHash(PyStr(p.name)), PyHash(p.value)>>

\* GridCombination.__hash__: the hash of the tuple of parameters.
GridCombination_hash(c) == [k \in 1..Len(c.parameters) |-> GridParameter_hash(c.parameters[k])]

path_parts(c) == [k \in 1..Len(c.parameters) |-> to_path(c.parameters[k])]

\* Whether get_relative_result_path raises.
path_raises(c) == \E k \in 1..Len(c.parameters) : path_parts(c)[k] = NotImplementedError

get_relative_result_path(c) == Path(FALSE, path_parts(c))

get_full_result_path(c) == joinpath(c.result_path, get_relative_result_path(c))

destructure(c) == [k \in 1..Len(c.parameters) |-> c.parameters[k].value]

(***************************************************************************)
(* prepare_grid_combinations.                                              *)
(***************************************************************************)
\* itertools.product: the last list varies fastest.
RECURSIVE product(_)
product(lists) ==
    IF Len(lists) = 0 THEN << <<>> >>
    ELSE LET rest == product(Tail(lists))
             head == Head(lists)
             n == Len(rest)
         IN [k \in 1..(Len(head) * n) |->
                <<head[((k - 1) \div n) + 1]>> \o rest[((k - 1) % n) + 1]]

args_lists(grid) ==
    [i \in 1..Len(grid) |->
        [j \in 1..Len(grid[i].values) |-> GridParameter(grid[i].name, grid[i].values[j])]]

grid_order(grid) == [i \in 1..Len(grid) |-> grid[i].name]

\* The keys in alphabetical order.
alphabetical(ord) ==
    LET rank(name) == CASE name = "a" -> 1 [] name = "b" -> 2 [] OTHER -> 3
    IN IF Len(ord) = 2 /\ rank(ord[1]) > rank(ord[2]) THEN <<ord[2], ord[1]>> ELSE ord

\* sort_by_order reading the combination in alphabetical order of the names.
sort_by_name(combination, ord) ==
    [i \in 1..Len(ord) |->
        combination[CHOOSE k \in 1..Len(combination) : combination[k].name = alphabetical(ord)[i]]]

\* sort_by_order: index the combination by name, then read it in the order of the keys.
sort_by_order(combination, ord) ==
    LET temp(name) ==
            LET last == CHOOSE k \in 1..Len(combination) :
                            /\ combination[k].name = name
                            /\ \A m \in (k + 1)..Len(combination) : combination[m].name # name
            IN combination[last]
    IN [i \in 1..Len(ord) |-> temp(ord[i])]

built_combinations(grid, root) ==
    LET raw == product(args_lists(grid))
    IN [k \in 1..Len(raw) |-> GridCombination(root, sort_by_order(raw[k], grid_order(grid)))]

HasChildren(dir) ==
    \/ \E d \in dirs : d # dir /\ IsPrefix(dir, d)
    \/ \E f \in DOMAIN pickles : IsPrefix(dir, f)

(***************************************************************************)
(* The file system and the result cache.                                   *)
(***************************************************************************)
NoPayload == <<>>

GridSearchResult(c, payload, cached) == [combination |-> c, payload |-> payload, cached |-> cached]

NoResult == GridSearchResult(NoCombination, NoPayload, FALSE)

\* A result.pickle that was opened for writing and not (yet) dumped in full.
PartialFile == [complete |-> FALSE, result |-> NoResult]

CompleteFile(r) == [complete |-> TRUE, result |-> r]

\* has_result against the files of a given disk.
has_result_in(disk, c) ==
    Resolve(joinpath(c.result_path, get_full_result_path(c))) \in DOMAIN disk

has_result(c) == has_result_in(pickles, c)

load_location(c) == Resolve(get_full_result_path(c))

save_location(r) == Resolve(get_full_result_path(r.combination))

\* The state, summary and metrics of the backtest a worker runs for a combination.
backtest(c) == destructure(c)

NoError == [type |-> "none", names |-> NoCombination]

PyError(type, c) == [type |-> type, names |-> c]

(***************************************************************************)
(* Indicators: IndicatorDefinition, IndicatorStorage and the calculation   *)
(* engine calculate_and_load_indicators.                                   *)
(***************************************************************************)
TradingPairIdentifier(internal_id, base, quote) ==
    [internal_id |-> internal_id, base |-> base, quote |-> quote]

weth_usdc == TradingPairIdentifier(1, "WETH", "USDC")
wbtc_usdc == TradingPairIdentifier(2, "WBTC", "USDC")
\* WETH-USDC as it trades on a second exchange.
weth_usdc_2 == TradingPairIdentifier(3, "WETH", "USDC")

TradingStrategyUniverse(pairs, range) == [pairs |-> pairs, range |-> range]

RECURSIVE pair_tickers(_)
pair_tickers(pairs) ==
    IF Len(pairs) = 0 THEN ""
    ELSE Head(pairs).base \o "-" \o Head(pairs).quote
            \o (IF Len(pairs) = 1 THEN "" ELSE "-" \o pair_tickers(Tail(pairs)))

\* The universe key: chain, time bucket, pair tickers and date range.
get_cache_key(universe) ==
    "ethereum,1d," \o pair_tickers(universe.pairs) \o "," \o universe.range

Universes ==
    {TradingStrategyUniverse(ps, r) :
        ps \in {<<weth_usdc, wbtc_usdc>>, <<weth_usdc, weth_usdc_2>>, <<wbtc_usdc>>},
        r \in {"2021-06-01-2021-12-31", "2022-01-01-2022-12-31"}}

\* parameters is the dict in insertion order: a sequence of [name, value].
IndicatorDefinition(name, func, params) == [name |-> name, func |-> func, parameters |-> params]

NoDefinition == IndicatorDefinition("", "", <<>>)

IndicatorFunctionSignatureMismatch == "IndicatorFunctionSignatureMismatch"

\* The parameter names of pandas_ta.rsi and pandas_ta.sma.
accepted(func) ==
    CASE func = "rsi" -> {"close", "length", "scalar", "talib", "drift", "offset"}
      [] func = "sma" -> {"close", "length", "talib", "offset"}
      [] func = "broken" -> {"close", "length"}
      [] OTHER -> {}

\* Whether the indicator function raises when it is called with the data of a pair.
function_raises(func) == func = "broken"

\* A validation that lets every parameter name through.
signature_unchecked(func, params) == FALSE

\* IndicatorDefinition validates the parameter names against the function.
signature_mismatch(func, params) ==
    \E i \in 1..Len(params) : params[i].name \notin accepted(func)

\* A set that keeps every registration, also under a name it already holds.
IndicatorSet_add_keep(set, ind) == Append(set, ind)

\* IndicatorSet.add: a mapping from name to definition, the last registration of a
\* name replaces the earlier one.
IndicatorSet_add(set, ind) ==
    IF \E i \in 1..Len(set) : set[i].name = ind.name
    THEN [i \in 1..Len(set) |-> IF set[i].name = ind.name THEN ind ELSE set[i]]
    ELSE Append(set, ind)

\* Running the create_indicators callback: its registrations in order, until the
\* construction of a definition raises.
RECURSIVE run_create_indicators(_, _)
run_create_indicators(registrations, set) ==
    IF Len(registrations) = 0 THEN [set |-> set, raised |-> FALSE, rejected |-> NoDefinition]
    ELSE LET ind == Head(registrations)
         IN IF signature_mismatch(ind.func, ind.parameters)
            THEN [set |-> set, raised |-> TRUE, rejected |-> ind]
            ELSE run_create_indicators(Tail(registrations), IndicatorSet_add(set, ind))

rsi_2 == IndicatorDefinition("rsi", "rsi", <<GridParameter("length", PyInt(2))>>)
rsi_1 == IndicatorDefinition("rsi", "rsi", <<GridParameter("length", PyInt(1))>>)
sma_2 == IndicatorDefinition("sma", "sma", <<GridParameter("length", PyInt(2)),
                                             GridParameter("offset", PyInt(1))>>)
sma_bad == IndicatorDefinition("sma", "sma", <<GridParameter("lengthx", PyInt(2))>>)
broken_2 == IndicatorDefinition("broken", "broken", <<GridParameter("length", PyInt(2))>>)

\* The create_indicators callbacks: one or two distinctly named indicators, a name
\* registered twice, a definition with a parameter its function does not have, and
\* an indicator whose function raises.
Callbacks == {<<rsi_2>>, <<rsi_2, sma_2>>, <<rsi_2, rsi_1>>, <<rsi_2, sma_bad>>,
              <<rsi_2, broken_2>>}

IndicatorStorage(path, universe_key) == [path |-> path, universe_key |-> universe_key]

tmp_path == Path(TRUE, <<"tmp">>)

\* k1=v1,k2=v2,... in the order of the parameters.
RECURSIVE param_string(_)
param_string(params) ==
    IF Len(params) = 0 THEN ""
    ELSE Head(params).name \o "=" \o PyFormat(Head(params).value)
            \o (IF Len(params) = 1 THEN "" ELSE "," \o param_string(Tail(params)))

\* An artifact path that leaves the universe key out.
get_indicator_path_shared(storage, ind, pair) ==
    joinpath(storage.path,
             Path(FALSE, <<ind.name \o "(" \o param_string(ind.parameters) \o ")-"
                             \o pair.base \o "-" \o pair.quote \o ".parquet">>))

get_indicator_path(storage, ind, pair) ==
    joinpath(joinpath(storage.path, Path(FALSE, <<storage.universe_key>>)),
             Path(FALSE, <<ind.name \o "(" \o param_string(ind.parameters) \o ")-"
                             \o pair.base \o "-" \o pair.quote \o ".parquet">>))

IndicatorKey(pair, ind) == [pair |-> pair, definition |-> ind]

NoKey == IndicatorKey(TradingPairIdentifier(0, "", ""), NoDefinition)

artifact(storage, key) == Resolve(get_indicator_path(storage, key.definition, key.pair))

\* A writer that writes straight to the artifact path.
temp_path_in_place(at, k) == at

\* The temporary file of writer k, beside the artifact.
temp_path(at, k) == SubSeq(at, 1, Len(at) - 1) \o <<"tmp" \o DigitStr(k)>>

\* IndicatorStorage has(key): the artifact path exists.
IndicatorStorage_has(storage, key) == artifact(storage, key) \in DOMAIN parquet

\* The series the indicator function yields for a pair of a universe.
calculate(universe, key) ==
    [range |-> universe.range, pair |-> key.pair.internal_id,
     func |-> key.definition.func, parameters |-> key.definition.parameters]

NoData == [range |-> "", pair |-> 0, func |-> "", parameters |-> <<>>]

\* data is the series; universe_key is the key of the storage the artifact was saved
\* through (for a result: loaded through).
IndicatorResult(data, cached, universe_key) ==
    [data |-> data, cached |-> cached, universe_key |-> universe_key]

NoIndicatorResult == IndicatorResult(NoData, FALSE, "")

\* A parquet file: written in full, or cut short.
ParquetFile(data, universe_key) == [data |-> data, universe_key |-> universe_key, complete |-> TRUE]

PartialParquet(universe_key) == [data |-> NoData, universe_key |-> universe_key, complete |-> FALSE]

NoIndicatorError == [type |-> "none", key |-> NoKey, definition |-> NoDefinition]

\* An error that does not say which key failed.
failure_unnamed(type, key) == [type |-> type, key |-> NoKey, definition |-> NoDefinition]

\* The error of a failed unit of work names its pair and indicator.
failure_of(type, key) == [type |-> type, key |-> key, definition |-> key.definition]

\* The pair x indicator matrix, pair by pair.
indicator_keys(universe, indicators) ==
    LET K == Len(indicators)
    IN [k \in 1..(Len(universe.pairs) * K) |->
           IndicatorKey(universe.pairs[((k - 1) \div K) + 1], indicators[((k - 1) % K) + 1])]

StorageEmpty(storage) ==
    \A f \in DOMAIN parquet : ~IsPrefix(Resolve(joinpath(storage.path, Path(FALSE, <<storage.universe_key>>))), f)

NoIndicatorRun == [phase |-> "none", result |-> <<>>, began_empty |-> FALSE, empty |-> FALSE]

IdleEngine ==
    /\ ind_phase = "idle" /\ ind_workers = 1
    /\ indicator_set = <<>>
    /\ ind_keys = <<>> /\ ind_pc = <<>> /\ indicator_result = <<>>
    /\ ind_error = NoIndicatorError
    /\ ind_prev = NoIndicatorRun

IdleReader == reader = <<>> /\ observed = "none"

\* The indicator engine at rest, as the grid search specifications leave it.
IdleIndicators ==
    /\ strategy_universe = TradingStrategyUniverse(<<wbtc_usdc>>, "2021-06-01-2021-12-31")
    /\ indicator_storage = IndicatorStorage(tmp_path, get_cache_key(strategy_universe))
    /\ create_indicators = <<>>
    /\ parquet = <<>>
    /\ ind_run = 0
    /\ IdleEngine
    /\ IdleReader

\* The keys a worker is computing or saving.
Computing == {k \in DOMAIN ind_pc : ind_pc[k] \in {"save", "publish"}}

FailedKeys == {k \in DOMAIN ind_pc : ind_pc[k] \in {"failed", "corrupt"}}

\* The indicator_storage fixture: a storage for the universe of a new session.
new_indicator_storage(universe) ==
    /\ ind_phase # "running" /\ Computing = {}
    /\ universe # strategy_universe
    /\ strategy_universe' = universe
    /\ indicator_storage' = IndicatorStorage(tmp_path, get_cache_key(universe))
    /\ ind_phase' = "idle"
    /\ indicator_set' = <<>>
    /\ ind_keys' = <<>> /\ ind_pc' = <<>> /\ indicator_result' = <<>>
    /\ ind_error' = NoIndicatorError
    /\ ind_prev' = NoIndicatorRun
    /\ UNCHANGED <<grid_vars, component_vars, create_indicators, parquet, ind_workers, ind_run, reader, observed>>

\* calculate_and_load_indicators: run create_indicators, build the keys and partition
\* them by has(key). A registration that fails its validation ends the call.
calculate_and_load_indicators(workers) ==
    LET made == run_create_indicators(create_indicators, <<>>)
        keys == IF made.raised THEN <<>> ELSE indicator_keys(strategy_universe, made.set)
    IN /\ ind_phase # "running" /\ Computing = {}
       /\ ind_run < MaxIndicatorRuns
       /\ ind_phase' = IF made.raised THEN "raised" ELSE "running"
       /\ ind_error' = IF made.raised
                       THEN [type |-> IndicatorFunctionSignatureMismatch, key |-> NoKey,
                             definition |-> made.rejected]
                       ELSE NoIndicatorError
       /\ indicator_set' = made.set
       /\ ind_workers' = workers
       /\ ind_run' = ind_run + 1
       /\ ind_keys' = keys
       /\ ind_pc' = [k \in DOMAIN keys |->
                       IF IndicatorStorage_has(indicator_storage, keys[k]) THEN "load" ELSE "compute"]
       /\ indicator_result' = [k \in DOMAIN keys |-> NoIndicatorResult]
       /\ ind_prev' = [phase |-> ind_phase,
                       result |-> IF ind_phase = "returned" THEN indicator_result ELSE <<>>,
                       began_empty |-> ind_prev.empty,
                       empty |-> StorageEmpty(indicator_storage)]
       /\ UNCHANGED <<grid_vars, component_vars, session_vars, parquet>>

\* A reader loads the artifact of a cached key; a file it cannot parse is an error.
load_indicator(k) ==
    LET file == parquet[artifact(indicator_storage, ind_keys[k])]
    IN /\ ind_phase = "running"
       /\ ind_pc[k] = "load"
       /\ IF file.complete
          THEN /\ indicator_result' = [indicator_result EXCEPT ![k] =
                                          IndicatorResult(file.data, TRUE, file.universe_key)]
               /\ ind_pc' = [ind_pc EXCEPT ![k] = "done"]
          ELSE /\ indicator_result' = indicator_result
               /\ ind_pc' = [ind_pc EXCEPT ![k] = "corrupt"]
       /\ UNCHANGED <<grid_vars, component_vars, session_vars, indicator_set, parquet,
                      ind_phase, ind_workers, ind_keys, ind_error, ind_run, ind_prev>>

\* Whether a worker takes key k now: the keys are handed out in order.
may_calculate(k) ==
    /\ ind_phase = "running"
    /\ ind_pc[k] = "compute"
    /\ \A j \in 1..(k - 1) : ind_pc[j] # "compute"
    /\ Cardinality(Computing) < ind_workers
    /\ ind_workers > 1 \/ FailedKeys = {}

\* A worker calls the indicator function for the key.
calculate_indicator(k) ==
    /\ may_calculate(k)
    /\ ~function_raises(ind_keys[k].definition.func)
    /\ indicator_result' = [indicator_result EXCEPT ![k] =
                               IndicatorResult(calculate(strategy_universe, ind_keys[k]), FALSE,
                                               indicator_storage.universe_key)]
    /\ ind_pc' = [ind_pc EXCEPT ![k] = "save"]
    /\ UNCHANGED <<grid_vars, component_vars, session_vars, indicator_set, parquet,
                   ind_phase, ind_workers, ind_keys, ind_error, ind_run, ind_prev>>

\* The indicator function raises: the unit of work fails and nothing is written.
calculate_indicator_raises(k) ==
    /\ may_calculate(k)
    /\ function_raises(ind_keys[k].definition.func)
    /\ ind_pc' = [ind_pc EXCEPT ![k] = "failed"]
    /\ UNCHANGED <<grid_vars, component_vars, session_vars, indicator_set, parquet, indicator_result,
                   ind_phase, ind_workers, ind_keys, ind_error, ind_run, ind_prev>>

\* IndicatorStorage save(key, data), first half: the writer creates its temporary
\* file and starts writing.
save_indicator(k) ==
    LET at == artifact(indicator_storage, ind_keys[k])
        temp == temp_path(at, k)
    IN /\ ind_pc[k] = "save"
       /\ parquet' = [f \in DOMAIN parquet \cup {temp} |->
                         IF f = temp THEN PartialParquet(indicator_storage.universe_key)
                         ELSE parquet[f]]
       /\ ind_pc' = [ind_pc EXCEPT ![k] = "publish"]
       /\ UNCHANGED <<grid_vars, component_vars, session_vars, indicator_set, indicator_result,
                      ind_phase, ind_workers, ind_keys, ind_error, ind_run, ind_prev>>

\* IndicatorStorage save(key, data), second half: the file is written in full and
\* renamed to the artifact path.
publish_indicator(k) ==
    LET at == artifact(indicator_storage, ind_keys[k])
        temp == temp_path(at, k)
        file == ParquetFile(indicator_result[k].data, indicator_storage.universe_key)
    IN /\ ind_pc[k] = "publish"
       /\ parquet' = [f \in (DOMAIN parquet \ {temp}) \cup {at} |->
                         IF f = at THEN file ELSE parquet[f]]
       /\ ind_pc' = [ind_pc EXCEPT ![k] = "done"]
       /\ UNCHANGED <<grid_vars, component_vars, session_vars, indicator_set, indicator_result,
                      ind_phase, ind_workers, ind_keys, ind_error, ind_run, ind_prev>>

\* calculate_and_load_indicators returns the mapping once every key has its result.
calculate_and_load_indicators_returns ==
    /\ ind_phase = "running"
    /\ \A k \in DOMAIN ind_pc : ind_pc[k] = "done"
    /\ ind_phase' = "returned"
    /\ UNCHANGED <<grid_vars, component_vars, session_vars, indicator_set, parquet,
                   ind_workers, ind_keys, ind_pc, indicator_result, ind_error, ind_run, ind_prev>>

\* calculate_and_load_indicators raises the error of a failed unit of work, once the
\* workers that were busy have finished.
calculate_and_load_indicators_raises ==
    /\ ind_phase = "running"
    /\ Computing = {}
    /\ \E k \in FailedKeys :
          ind_error' = failure_of(IF ind_pc[k] = "corrupt" THEN "CacheCorruptError"
                                  ELSE "IndicatorCalculationFailed", ind_keys[k])
    /\ ind_phase' = "raised"
    /\ UNCHANGED <<grid_vars, component_vars, session_vars, indicator_set, parquet,
                   ind_workers, ind_keys, ind_pc, indicator_result, ind_run, ind_prev>>

\* A concurrent reader checks has(key) for a key of the running call.
reader_has(k) ==
    LET at == artifact(indicator_storage, ind_keys[k])
    IN /\ reader = <<>>
       /\ at \in DOMAIN parquet
       /\ reader' = at
       /\ UNCHANGED <<grid_vars, component_vars, strategy_universe, indicator_storage, create_indicators,
                      indicator_set, parquet, ind_phase, ind_workers, ind_keys, ind_pc,
                      indicator_result, ind_error, observed, ind_run, ind_prev>>

\* The reader loads the artifact it found.
reader_load ==
    /\ reader # <<>>
    /\ observed' = IF parquet[reader].complete THEN "complete" ELSE "partial"
    /\ reader' = <<>>
    /\ UNCHANGED <<grid_vars, component_vars, strategy_universe, indicator_storage, create_indicators,
                   indicator_set, parquet, ind_phase, ind_workers, ind_keys, ind_pc,
                   indicator_result, ind_error, ind_run, ind_prev>>

(***************************************************************************)
(* Account corrections (tradeexecutor/strategy/account_correction.py) over *)
(* the reserve position (tradeexecutor/state/reserve.py): the ledger, the   *)
(* on-chain balances, and the two generators calculate_account_corrections *)
(* and correct_accounts, advanced one next() at a time.                    *)
(***************************************************************************)
\* Token amounts are counted in units of the dust epsilon.
DUST_EPSILON == 1

Amounts == 0..MaxAmount

reserve_assets == {"USDC"}

None == [kind |-> "none"]

abs(x) == IF x < 0 THEN -x ELSE x

\* str.lower() on the answers an operator types and on the names a strategy module
\* exports.
lower(text) ==
    CASE text = "Y" -> "y"
      [] text = "N" -> "n"
      [] text = "TRADING_STRATEGY_ENGINE_VERSION" -> "trading_strategy_engine_version"
      [] text = "STRATEGY_FACTORY" -> "strategy_factory"
      [] text = "TRADING_STRATEGY_CYCLE" -> "trading_strategy_cycle"
      [] OTHER -> text

\* What input() may return.
Answers == {"y", "Y", "n", ""}

BalanceUpdate(balance_update_id, position_type, cause, asset, old_balance, quantity, position_id) ==
    [balance_update_id |-> balance_update_id, position_type |-> position_type, cause |-> cause,
     asset |-> asset, old_balance |-> old_balance, quantity |-> quantity,
     position_id |-> position_id]

BalanceEventRef(evt) ==
    [balance_event_id |-> evt.balance_update_id, cause |-> evt.cause,
     position_type |-> evt.position_type, position_id |-> evt.position_id]

\* A dict after d[key] = value.
setitem(d, key, value) == [k \in DOMAIN d \cup {key} |-> IF k = key THEN value ELSE d[k]]

\* sum_decimal over the quantities of the events of a dict.
RECURSIVE sum_quantity(_, _)
sum_quantity(balance_updates, ids) ==
    IF ids = {} THEN 0
    ELSE LET id == CHOOSE i \in ids : TRUE
         IN balance_updates[id].quantity + sum_quantity(balance_updates, ids \ {id})

\* ReservePosition.get_balance_update_quantity
\* The quantity the position carries, whatever its events say.
get_stored_quantity(position) == position.quantity

get_balance_update_quantity(position) ==
    sum_quantity(position.balance_updates, DOMAIN position.balance_updates)

ReservePosition(quantity, balance_updates) ==
    [kind |-> "reserve", asset |-> "USDC", quantity |-> quantity,
     balance_updates |-> balance_updates]

\* A trading position of the pair WETH-USDC: the quantity its trades bought, whether
\* it is closed, and its balance updates.
TradingPosition(position_id, closed, traded, balance_updates) ==
    [kind |-> "trading", asset |-> "WETH", position_id |-> position_id, closed |-> closed,
     traded |-> traded, balance_updates |-> balance_updates]

\* State: the portfolio with its reserve position and at most one trading position,
\* and the accounting part of the sync state.
State(next_balance_update_id, reserves, position, balance_update_refs) ==
    [portfolio |-> [next_balance_update_id |-> next_balance_update_id,
                    reserves |-> reserves, position |-> position],
     sync |-> [accounting |-> [balance_update_refs |-> balance_update_refs]]]

\* The position object a check refers to: "reserve", "trading" or "none".
position_of(st, ref) ==
    CASE ref = "reserve" -> st.portfolio.reserves
      [] ref = "trading" -> st.portfolio.position
      [] OTHER -> None

get_quantity(position) ==
    CASE position.kind = "reserve" -> position.quantity
      [] position.kind = "trading" -> position.traded + get_balance_update_quantity(position)
      [] OTHER -> 0

\* map_onchain_asset_to_position: the reserve position for a reserve asset, else the
\* trading position whose pair has the asset as its base token, open or closed,
\* else None.
map_onchain_asset_to_position(asset, st) ==
    IF asset \in reserve_assets THEN "reserve"
    ELSE IF st.portfolio.position.kind = "trading" /\ st.portfolio.position.asset = asset
         THEN "trading"
         ELSE "none"

\* One entry of sync_model.fetch_onchain_balances; timestamp 0 stands for None.
AssetBalance(asset, amount, timestamp) == [asset |-> asset, amount |-> amount, timestamp |-> timestamp]

AccountingBalanceCheck(asset, position, expected_amount, actual_amount, epsilon, timestamp, reserve_asset, mismatch) ==
    [type |-> "unknown", asset |-> asset, position |-> position,
     expected_amount |-> expected_amount, actual_amount |-> actual_amount,
     epsilon |-> epsilon, timestamp |-> timestamp, reserve_asset |-> reserve_asset,
     mismatch |-> mismatch]

NoCheck == AccountingBalanceCheck("", "none", 0, 0, 0, 0, FALSE, FALSE)

\* AccountingBalanceCheck.quantity
AccountingBalanceCheck_quantity(check) == check.actual_amount - check.expected_amount

\* A generator that yields for every asset, whatever all_balances says.
yields_check_always(mismatch, all_balances) == TRUE

\* The condition under which calculate_account_corrections yields the check of an asset.
yields_check(mismatch, all_balances) == mismatch \/ all_balances

\* A generator that skips over a closed position.
closed_position_ignored(position) == FALSE

\* The condition under which calculate_account_corrections raises for a mapped position.
closed_position_raises(position) == position.kind = "trading" /\ position.closed

\* The body of calculate_account_corrections from the asset at index i up to its next
\* yield, its raise or its end.
RECURSIVE calculate_account_corrections_from(_, _, _, _, _)
calculate_account_corrections_from(st, asset_balances, epsilon, all_balances, i) ==
    IF i > Len(asset_balances)
    THEN [outcome |-> "stop", next |-> i, check |-> NoCheck]
    ELSE LET ab == asset_balances[i]
             reserve == ab.asset \in reserve_assets
             ref == map_onchain_asset_to_position(ab.asset, st)
             position == position_of(st, ref)
             actual_amount == ab.amount
             expected_amount == IF ref # "none" THEN get_quantity(position) ELSE 0
             diff == actual_amount - expected_amount
             mismatch == abs(diff) > epsilon
         IN IF closed_position_raises(position)
            THEN [outcome |-> "raise", next |-> i, check |-> NoCheck]
            ELSE IF yields_check(mismatch, all_balances)
                 THEN [outcome |-> "yield", next |-> i + 1,
                       check |-> AccountingBalanceCheck(ab.asset, ref, expected_amount,
                                     actual_amount, epsilon, ab.timestamp, reserve, mismatch)]
                 ELSE calculate_account_corrections_from(st, asset_balances, epsilon,
                                                         all_balances, i + 1)

NoEvent == BalanceUpdate(0, "", "", "", 0, 0, 0)

\* A correction that leaves the quantity of the reserve as it was.
quantity_kept(position, correction) == position.quantity

\* position.quantity += correction.quantity
quantity_corrected(position, correction) ==
    position.quantity + AccountingBalanceCheck_quantity(correction)

\* apply_accounting_correction: the state it leaves, the event it returns and the
\* exception that ended it ("" when it returned).
apply_accounting_correction(st, correction) ==
    LET portfolio == st.portfolio
        ref == correction.position
        position == position_of(st, ref)
        event_id == portfolio.next_balance_update_id
        bumped == [st EXCEPT !.portfolio.next_balance_update_id = event_id + 1]
        position_type == IF ref = "trading" THEN "open_position" ELSE "reserve"
        position_id == IF ref = "trading" THEN position.position_id ELSE 0
        evt == BalanceUpdate(event_id, position_type, "correction", correction.asset,
                             correction.actual_amount, AccountingBalanceCheck_quantity(correction), position_id)
        updated == [position EXCEPT !.balance_updates = setitem(position.balance_updates, event_id, evt)]
        refs == Append(st.sync.accounting.balance_update_refs, BalanceEventRef(evt))
    IN IF correction.timestamp = 0
       THEN [state |-> st, evt |-> NoEvent, raised |-> "AssertionError"]
       ELSE IF event_id \in DOMAIN position.balance_updates
       THEN [state |-> bumped, evt |-> NoEvent, raised |-> "AssertionError"]
       ELSE IF ref = "trading"
       THEN IF get_quantity(updated) > 0
            THEN [state |-> [bumped EXCEPT !.portfolio.position = updated,
                                           !.sync.accounting.balance_update_refs = refs],
                  evt |-> evt, raised |-> ""]
            ELSE [state |-> [bumped EXCEPT !.portfolio.position = updated],
                  evt |-> NoEvent, raised |-> "AssertionError"]
       ELSE [state |-> [bumped EXCEPT
                           !.portfolio.reserves =
                               [updated EXCEPT !.quantity = quantity_corrected(position, correction)],
                           !.sync.accounting.balance_update_refs = refs],
             evt |-> evt, raised |-> ""]

\* transfer_away_assets_without_position: the exception that ends it, "" when the
\* transfer was sent. Without a vault there is no web3 connection to send it through.
transfer_away_raises(correction, vault) ==
    IF correction.reserve_asset THEN "AssertionError"
    ELSE IF ~vault THEN "AttributeError"
    ELSE ""

\* The loop of correct_accounts from the correction at index i up to its next yield,
\* its raise or its end.
RECURSIVE correct_accounts_from(_, _, _, _, _)
correct_accounts_from(st, sent, corrections, vault, i) ==
    IF i > Len(corrections)
    THEN [outcome |-> "stop", next |-> i, state |-> st, transfers |-> sent,
          evt |-> NoEvent, raised |-> ""]
    ELSE LET correction == corrections[i]
         IN IF correction.position = "none"
            THEN IF transfer_away_raises(correction, vault) # ""
                 THEN [outcome |-> "raise", next |-> i, state |-> st, transfers |-> sent,
                       evt |-> NoEvent, raised |-> transfer_away_raises(correction, vault)]
                 ELSE correct_accounts_from(st, Append(sent, correction.asset), corrections,
                                            vault, i + 1)
            ELSE LET applied == apply_accounting_correction(st, correction)
                 IN IF applied.raised # ""
                    THEN [outcome |-> "raise", next |-> i, state |-> applied.state,
                          transfers |-> sent, evt |-> NoEvent, raised |-> applied.raised]
                    ELSE [outcome |-> "yield", next |-> i + 1, state |-> applied.state,
                          transfers |-> sent, evt |-> applied.evt, raised |-> ""]

\* A prompt that goes on whatever the operator answers.
declined_never(confirmation) == FALSE

\* The confirmation check of correct_accounts.
declined(confirmation) == confirmation # "y"

\* ledger is the state the generator was called with.
NoCalculation ==
    [pc |-> "idle", all_balances |-> FALSE, asset_balances |-> <<>>, next |-> 1,
     yielded |-> <<>>, error |-> "",
     ledger |-> State(1, ReservePosition(0, <<>>), None, <<>>)]

NoCorrection ==
    [pc |-> "idle", interactive |-> FALSE, vault |-> FALSE, corrections |-> <<>>, next |-> 1,
     answer |-> "", yielded |-> <<>>, error |-> "",
     before |-> [state |-> State(1, ReservePosition(0, <<>>), None, <<>>), transfers |-> <<>>],
     runs |-> 0]

NoCall == [op |-> "none", event |-> NoEvent, raised |-> "", before |-> <<>>]

\* The ledger at rest, as the specifications of the other components leave it.
IdleAccounts ==
    /\ state = State(1, ReservePosition(0, <<>>), None, <<>>)
    /\ onchain = <<>>
    /\ calc = NoCalculation
    /\ correct = NoCorrection
    /\ transfers = <<>>
    /\ reserve_call = NoCall

(***************************************************************************)
(* Crossover detection (tradeexecutor/state/crossover.py).                 *)
(***************************************************************************)
\* The values of a series: what matters is how two of them compare. The second
\* series stays at one level, the first is below, at or above it at every position.
Prices == {0, 1, 2}

Level == {1}

Series(values) == UNION {[1..n -> values] : n \in 0..MaxSeries}

min(a, b) == IF a < b THEN a ELSE b

max(a, b) == IF a > b THEN a ELSE b

\* series.iloc[start:]
iloc_from(series, start) ==
    LET n == Len(series)
        begin == IF start < 0 THEN max(n + start, 0) ELSE min(start, n)
    IN SubSeq(series, begin + 1, n)

\* _get_lookback: the two windows.
get_lookback(s1, s2, period) ==
    LET clipped == IF Len(s1) < period \/ Len(s2) < period THEN min(Len(s1), Len(s2)) ELSE period
    IN <<iloc_from(s1, -clipped), iloc_from(s2, -clipped)>>

\* operator.gt and operator.lt
compare(op, x, y) == IF op = "gt" THEN x > y ELSE x < y

\* A scan that reports the first cross it finds.
cross_index_first(found, cross_index) == IF found.has_crossed THEN found.cross_index ELSE cross_index

\* The index the loop of _cross_check keeps: that of the cross it met last.
cross_index_latest(found, cross_index) == cross_index

\* The loop of _cross_check from position i (counted from 0) of the zipped windows.
RECURSIVE cross_check_from(_, _, _, _, _, _)
cross_check_from(lookback1, lookback2, comparison_operator, unlock_operator, i, found) ==
    IF i >= min(Len(lookback1), Len(lookback2)) THEN found
    ELSE LET x == lookback1[i + 1]
             y == lookback2[i + 1]
             crossed == IF compare(comparison_operator, x, y) /\ ~found.locked
                        THEN [has_crossed |-> TRUE,
                              cross_index |-> cross_index_latest(found, PyInt(-(Len(lookback1) - i))),
                              locked |-> TRUE]
                        ELSE found
             unlocked == IF compare(unlock_operator, x, y)
                         THEN [crossed EXCEPT !.locked = FALSE] ELSE crossed
         IN cross_check_from(lookback1, lookback2, comparison_operator, unlock_operator,
                             i + 1, unlocked)

\* A Python return value: one object, or a tuple of objects.
Returned(items) == [tuple |-> Len(items) > 1, items |-> items]

\* _cross_check
cross_check(s1, s2, period, return_index, comparison_operator, unlock_operator) ==
    LET lookback == get_lookback(s1, s2, period)
        found == cross_check_from(lookback[1], lookback[2], comparison_operator, unlock_operator, 0,
                                  [has_crossed |-> FALSE, cross_index |-> PyNone, locked |-> TRUE])
    IN IF return_index
       THEN Returned(<<PyBool(IF found.has_crossed THEN 1 ELSE 0), found.cross_index>>)
       ELSE Returned(<<PyBool(IF found.has_crossed THEN 1 ELSE 0)>>)

NoCrossing == [op |-> "none", returned |-> Returned(<<PyNone>>)]

IdleCrossover ==
    /\ series1 = <<>> /\ series2 = <<>>
    /\ lookback_period = 2 /\ must_return_index = FALSE
    /\ crossing = NoCrossing

contains_cross_over ==
    /\ crossing' = [op |-> "contains_cross_over",
                    returned |-> cross_check(series1, series2, lookback_period,
                                             must_return_index, "gt", "lt")]
    /\ UNCHANGED <<outside_crossover, series1, series2, lookback_period, must_return_index>>

contains_cross_under ==
    /\ crossing' = [op |-> "contains_cross_under",
                    returned |-> cross_check(series1, series2, lookback_period,
                                             must_return_index, "lt", "gt")]
    /\ UNCHANGED <<outside_crossover, series1, series2, lookback_period, must_return_index>>

(***************************************************************************)
(* Strategy modules (tradeexecutor/strategy/strategy_module.py).           *)
(***************************************************************************)
SUPPORTED_TRADING_STRATEGY_ENGINE_VERSIONS == {"0.1", "0.2", "0.3"}

\* An instance of a class, or a function.
Instance(type) == [type |-> type, num |-> 1, text |-> ""]

\* bool(value)
truthy(v) ==
    CASE v.type = "NoneType" -> FALSE
      [] v.type = "str" -> v.text # ""
      [] v.type \in {"int", "float", "bool"} -> v.num # 0
      [] OTHER -> TRUE

isinstance(v, type) == v.type = type

is_callable(v) == v.type = "function"

Export(name, value) == [name |-> name, value |-> value]

\* Keys that stay as the module wrote them.
as_written(name) == name

\* The key an exported name gets in strategy_exports.
export_key(name) == lower(name)

\* {k.lower(): v for k, v in strategy_exports.items()}: a later name replaces an
\* earlier one with the same key.
RECURSIVE lower_keys(_, _)
lower_keys(exports, d) ==
    IF Len(exports) = 0 THEN d
    ELSE lower_keys(Tail(exports), setitem(d, export_key(Head(exports).name), Head(exports).value))

\* dict.get(key, default)
get(d, key, default) == IF key \in DOMAIN d THEN d[key] ELSE default

\* parse_strategy_module: the fields validate looks at.
parse_strategy_module(python_module_exports) ==
    [trading_strategy_engine_version |-> get(python_module_exports, "trading_strategy_engine_version", PyNone),
     trading_strategy_type |-> get(python_module_exports, "trading_strategy_type", Instance("StrategyType")),
     trading_strategy_cycle |-> get(python_module_exports, "trading_strategy_cycle", PyNone),
     trade_routing |-> get(python_module_exports, "trade_routing", Instance("TradeRouting")),
     decide_trades |-> get(python_module_exports, "decide_trades", PyNone),
     create_trading_universe |-> get(python_module_exports, "create_trading_universe", PyNone),
     chain_id |-> get(python_module_exports, "chain_id", PyNone)]

NoInformation == parse_strategy_module(<<>>)

\* StrategyModuleInformation.validate: the exception it raises, "" when it passes.
validate(self) ==
    IF ~truthy(self.trading_strategy_engine_version) THEN "StrategyModuleNotValid"
    ELSE IF self.trading_strategy_engine_version.type # "str" THEN "StrategyModuleNotValid"
    ELSE IF self.trading_strategy_engine_version.text \notin SUPPORTED_TRADING_STRATEGY_ENGINE_VERSIONS
         THEN "StrategyModuleNotValid"
    ELSE IF ~truthy(self.trading_strategy_type) THEN "StrategyModuleNotValid"
    ELSE IF ~isinstance(self.trading_strategy_type, "StrategyType") THEN "StrategyModuleNotValid"
    ELSE IF ~isinstance(self.trading_strategy_cycle, "CycleDuration") THEN "StrategyModuleNotValid"
    ELSE IF self.trade_routing.type = "NoneType" THEN "StrategyModuleNotValid"
    ELSE IF ~isinstance(self.trade_routing, "TradeRouting") THEN "StrategyModuleNotValid"
    ELSE IF ~is_callable(self.decide_trades) THEN "StrategyModuleNotValid"
    ELSE IF ~is_callable(self.create_trading_universe) THEN "StrategyModuleNotValid"
    ELSE IF truthy(self.chain_id) /\ ~isinstance(self.chain_id, "ChainId") THEN "AssertionError"
    ELSE ""

\* What a read_strategy_module call leaves: the exception it raised, or the object
\* it returned (a factory, or the StrategyModuleInformation).
Loaded(raised, kind, value, info) ==
    [op |-> "read_strategy_module", raised |-> raised, kind |-> kind, value |-> value,
     info |-> info]

NotLoaded == [op |-> "none", raised |-> "", kind |-> "none", value |-> PyNone, info |-> NoInformation]

IdleModules == strategy_exports = <<>> /\ loaded = NotLoaded

read_strategy_module ==
    /\ LET exports == lower_keys(strategy_exports, <<>>)
           version == get(exports, "trading_strategy_engine_version", PyNone)
           strategy_runner == get(exports, "strategy_factory", PyNone)
           mod_info == parse_strategy_module(exports)
       IN loaded' =
             IF version.type = "NoneType"
             THEN IF strategy_runner.type = "NoneType"
                  THEN Loaded("StrategyModuleNotValid", "none", PyNone, NoInformation)
                  ELSE Loaded("", "StrategyFactory", strategy_runner, NoInformation)
             ELSE IF validate(mod_info) # ""
                  THEN Loaded(validate(mod_info), "none", PyNone, NoInformation)
                  ELSE Loaded("", "StrategyModuleInformation", PyNone, mod_info)
    /\ UNCHANGED <<outside_module, strategy_exports>>

\* The ways a module file may define each name.
VersionExports ==
    {<<>>,
     <<Export("trading_strategy_engine_version", PyNone)>>,
     <<Export("trading_strategy_engine_version", PyStr("0.3"))>>,
     <<Export("TRADING_STRATEGY_ENGINE_VERSION", PyStr("0.3"))>>,
     <<Export("trading_strategy_engine_version", PyStr("9.9"))>>,
     <<Export("trading_strategy_engine_version", PyFloat(1))>>,
     <<Export("trading_strategy_engine_version", PyStr(""))>>,
     <<Export("TRADING_STRATEGY_ENGINE_VERSION", PyStr("9.9")),
       Export("trading_strategy_engine_version", PyStr("0.3"))>>}

FactoryExports ==
    {<<>>,
     <<Export("strategy_factory", Instance("function"))>>,
     <<Export("STRATEGY_FACTORY", Instance("function"))>>,
     <<Export("strategy_factory", PyNone)>>}

TypeExports ==
    {<<>>,
     <<Export("trading_strategy_type", Instance("StrategyType"))>>,
     <<Export("trading_strategy_type", PyStr("managed_positions"))>>}

CycleExports ==
    {<<>>,
     <<Export("TRADING_STRATEGY_CYCLE", Instance("CycleDuration"))>>,
     <<Export("trading_strategy_cycle", PyStr("1d"))>>}

RoutingExports ==
    {<<>>,
     <<Export("trade_routing", Instance("TradeRouting"))>>,
     <<Export("trade_routing", PyNone)>>,
     <<Export("trade_routing", PyStr("uniswap_v2_usdc"))>>}

CallableExports(name) ==
    {<<>>, <<Export(name, Instance("function"))>>, <<Export(name, PyInt(1))>>}

ChainExports ==
    {<<>>, <<Export("chain_id", Instance("ChainId"))>>, <<Export("chain_id", PyInt(1))>>}

(***************************************************************************)
(* Trade execution on Uniswap v2 (tradeexecutor/ethereum/                  *)
(* uniswap_v2_execution.py). The six functions execute_trades calls live   *)
(* in tradeexecutor/ethereum/execution.py; what they do to a trade is      *)
(* taken from test_execute_trade_instructions_buy_weth.                    *)
(***************************************************************************)
TradingPairs == {"WETH-USDC", "AAVE-USDC"}

base(pair) == IF pair = "WETH-USDC" THEN "WETH" ELSE "AAVE"

quote(pair) == "USDC"

\* State.create_trade: a planned trade; a timestamp of 0 and a nonce of -1 stand
\* for None.
TradeExecution(trade_id, pair, buy) ==
    [trade_id |-> trade_id, pair |-> pair, buy |-> buy, status |-> "planned",
     started_at |-> 0, broadcasted_at |-> 0, executed_at |-> 0, nonce |-> -1]

\* The token a trade spends, which the router must be approved for.
spent_token(trade) == IF trade.buy THEN quote(trade.pair) ELSE base(trade.pair)

\* A token approval transaction.
Approval(token, nonce) == [token |-> token, nonce |-> nonce, confirmed |-> FALSE]

\* The calls of execute_trades with the swap broadcast ahead of the confirmation of
\* the approvals.
execute_trades_broadcast_first ==
    <<"approve_tokens", "prepare_swaps", "broadcast", "confirm_approvals",
      "wait_trades_to_complete", "resolve_trades">>

\* The calls execute_trades makes, in the order it makes them.
execute_trades_calls ==
    <<"approve_tokens", "prepare_swaps", "confirm_approvals", "broadcast",
      "wait_trades_to_complete", "resolve_trades">>

NoExecution ==
    [pc |-> 0, ts |-> 0, trades |-> <<>>, approvals |-> <<>>, broadcasted |-> {},
     receipts |-> {}, done |-> <<>>]

IdleExecution == trades = <<>> /\ hot_wallet = [current_nonce |-> 0] /\ execution = NoExecution

\* The call execute_trades is at.
executes(call) == execution.pc \in DOMAIN execute_trades_calls /\ execute_trades_calls[execution.pc] = call

\* The execution after one more call.
advance(after) ==
    [after EXCEPT !.pc = IF execution.pc = Len(execute_trades_calls) THEN 0 ELSE execution.pc + 1,
                  !.done = Append(execution.done, execute_trades_calls[execution.pc])]

planned_trades == {i \in DOMAIN trades : trades[i].status = "planned"}

RECURSIVE sorted(_)
sorted(ids) ==
    IF ids = {} THEN <<>>
    ELSE LET least == CHOOSE i \in ids : \A j \in ids : i <= j
         IN <<least>> \o sorted(ids \ {least})

RECURSIVE approve_from(_, _, _)
\* One approval per token the trades spend, each with the next nonce of the wallet.
approve_from(ids, nonce, approvals) ==
    IF Len(ids) = 0 THEN approvals
    ELSE LET token == spent_token(trades[Head(ids)])
         IN IF \E a \in DOMAIN approvals : approvals[a].token = token
            THEN approve_from(Tail(ids), nonce, approvals)
            ELSE approve_from(Tail(ids), nonce + 1, Append(approvals, Approval(token, nonce)))

position_in(ids, trade_id) == CHOOSE k \in DOMAIN ids : ids[k] = trade_id

\* The strategy plans a trade.
create_trade(pair, buy) ==
    /\ execution.pc = 0
    /\ Len(trades) < MaxTrades
    /\ trades' = Append(trades, TradeExecution(Len(trades) + 1, pair, buy))
    /\ UNCHANGED <<outside_execution, hot_wallet, execution>>

\* execute_trades is called with the planned trades.
execute_trades(ts) ==
    /\ execution.pc = 0
    /\ planned_trades # {}
    /\ execution' = [NoExecution EXCEPT !.pc = 1, !.ts = ts, !.trades = sorted(planned_trades)]
    /\ UNCHANGED <<outside_execution, trades, hot_wallet>>

approve_tokens ==
    /\ executes("approve_tokens")
    /\ \E approvals \in {approve_from(execution.trades, hot_wallet.current_nonce, <<>>)} :
          /\ execution' = advance([execution EXCEPT !.approvals = approvals])
          /\ hot_wallet' = [current_nonce |-> hot_wallet.current_nonce + Len(approvals)]
    /\ UNCHANGED <<outside_execution, trades>>

prepare_swaps ==
    /\ executes("prepare_swaps")
    /\ trades' = [i \in DOMAIN trades |->
                    IF \E k \in DOMAIN execution.trades : execution.trades[k] = i
                    THEN [trades[i] EXCEPT !.status = "started", !.started_at = execution.ts,
                                           !.nonce = hot_wallet.current_nonce
                                                       + position_in(execution.trades, i) - 1]
                    ELSE trades[i]]
    /\ hot_wallet' = [current_nonce |-> hot_wallet.current_nonce + Len(execution.trades)]
    /\ execution' = advance(execution)
    /\ UNCHANGED outside_execution

confirm_approvals ==
    /\ executes("confirm_approvals")
    /\ execution' = advance([execution EXCEPT !.approvals =
                                [a \in DOMAIN execution.approvals |->
                                    [execution.approvals[a] EXCEPT !.confirmed = TRUE]]])
    /\ UNCHANGED <<outside_execution, trades, hot_wallet>>

broadcast ==
    /\ executes("broadcast")
    /\ trades' = [i \in DOMAIN trades |->
                    IF \E k \in DOMAIN execution.trades : execution.trades[k] = i
                    THEN [trades[i] EXCEPT !.status = "broadcasted",
                                           !.broadcasted_at = execution.ts]
                    ELSE trades[i]]
    /\ execution' = advance([execution EXCEPT !.broadcasted =
                                {execution.trades[k] : k \in DOMAIN execution.trades}])
    /\ UNCHANGED <<outside_execution, hot_wallet>>

wait_trades_to_complete ==
    /\ executes("wait_trades_to_complete")
    /\ execution' = advance([execution EXCEPT !.receipts =
                                {execution.trades[k] : k \in DOMAIN execution.trades}])
    /\ UNCHANGED <<outside_execution, trades, hot_wallet>>

resolve_trades ==
    /\ executes("resolve_trades")
    /\ trades' = [i \in DOMAIN trades |->
                    IF i \in execution.broadcasted
                    THEN [trades[i] EXCEPT !.status = "success", !.executed_at = execution.ts]
                    ELSE trades[i]]
    /\ execution' = advance(execution)
    /\ UNCHANGED <<outside_execution, hot_wallet>>

\* The components at rest, as the grid search and the indicator engine leave them.
IdleComponents == IdleAccounts /\ IdleCrossover /\ IdleModules /\ IdleExecution

Active(generator) == generator.pc \in {"created", "suspended"}

\* calculate_account_corrections is called: a generator, nothing of its body has run.
calculate_account_corrections(all_balances) ==
    /\ ~Active(calc) /\ ~Active(correct)
    /\ calc' = [NoCalculation EXCEPT !.pc = "created", !.all_balances = all_balances,
                                     !.ledger = state]
    /\ UNCHANGED <<outside_accounts, state, onchain, correct, transfers, reserve_call>>

\* next() on the generator of calculate_account_corrections: the first one fetches
\* the on-chain balances.
calculate_account_corrections_next ==
    /\ Active(calc)
    /\ LET asset_balances == IF calc.pc = "created" THEN onchain ELSE calc.asset_balances
           went == calculate_account_corrections_from(state, asset_balances, DUST_EPSILON,
                                                      calc.all_balances, calc.next)
       IN calc' = [calc EXCEPT
                      !.asset_balances = asset_balances,
                      !.next = went.next,
                      !.pc = CASE went.outcome = "yield" -> "suspended"
                               [] went.outcome = "raise" -> "raised"
                               [] OTHER -> "returned",
                      !.error = IF went.outcome = "raise"
                                THEN "UnexpectedAccountingCorrectionIssue" ELSE "",
                      !.yielded = IF went.outcome = "yield" THEN Append(@, went.check) ELSE @]
    /\ UNCHANGED <<outside_accounts, state, onchain, correct, transfers, reserve_call>>

\* correct_accounts is called with the list of the checks the calculation yielded:
\* a generator, nothing of its body has run.
correct_accounts(interactive, vault) ==
    /\ calc.pc = "returned" /\ ~Active(correct)
    /\ correct.runs < MaxCorrections
    /\ correct' = [NoCorrection EXCEPT !.pc = "created", !.interactive = interactive,
                                      !.vault = vault, !.corrections = calc.yielded,
                                      !.before = [state |-> state, transfers |-> transfers], !.runs = correct.runs + 1]
    /\ UNCHANGED <<outside_accounts, state, onchain, calc, transfers, reserve_call>>

\* The balances after the assets of the transfers were sent away.
after_transfers(balances, sent) ==
    [i \in DOMAIN balances |->
        IF \E j \in DOMAIN sent : sent[j] = balances[i].asset
        THEN [balances[i] EXCEPT !.amount = 0] ELSE balances[i]]

\* next() on the generator of correct_accounts; the first one prompts the operator
\* when interactive.
correct_accounts_next(answer) ==
    /\ Active(correct)
    /\ IF correct.pc = "created" /\ correct.interactive /\ declined(lower(answer))
       THEN /\ correct' = [correct EXCEPT !.pc = "raised", !.answer = answer,
                                          !.error = "AccountingCorrectionAborted"]
            /\ UNCHANGED <<state, onchain, transfers>>
       ELSE LET went == correct_accounts_from(state, <<>>, correct.corrections,
                                              correct.vault, correct.next)
            IN /\ state' = went.state
               /\ transfers' = transfers \o went.transfers
               /\ onchain' = after_transfers(onchain, went.transfers)
               /\ correct' = [correct EXCEPT
                                 !.answer = IF correct.pc = "created" /\ correct.interactive
                                            THEN answer ELSE @,
                                 !.next = went.next,
                                 !.pc = CASE went.outcome = "yield" -> "suspended"
                                          [] went.outcome = "raise" -> "raised"
                                          [] OTHER -> "returned",
                                 !.error = went.raised,
                                 !.yielded = IF went.outcome = "yield"
                                             THEN Append(@, went.evt) ELSE @]
    /\ UNCHANGED <<outside_accounts, calc, reserve_call>>

\* An event that never counts as a duplicate.
already_added_never(position, event) == FALSE

\* The duplicate check of add_balance_update_event.
already_added(position, event) == event.balance_update_id \in DOMAIN position.balance_updates

\* ReservePosition.add_balance_update_event on the reserve position of the portfolio.
add_balance_update_event(event) ==
    LET position == state.portfolio.reserves
    IN /\ ~Active(calc) /\ ~Active(correct)
       /\ IF already_added(position, event)
          THEN /\ reserve_call' = [op |-> "add_balance_update_event", event |-> event,
                                   raised |-> "BalanceUpdateEventAlreadyAdded",
                                   before |-> position.balance_updates]
               /\ state' = state
          ELSE /\ reserve_call' = [op |-> "add_balance_update_event", event |-> event,
                                   raised |-> "", before |-> position.balance_updates]
               /\ state' = [state EXCEPT !.portfolio.reserves.balance_updates =
                               setitem(position.balance_updates, event.balance_update_id, event)]
       /\ UNCHANGED <<outside_accounts, onchain, calc, correct, transfers>>

\* ReservePosition.update_value on the reserve position of the portfolio.
update_value ==
    LET position == state.portfolio.reserves
    IN /\ ~Active(calc) /\ ~Active(correct)
       /\ state' = [state EXCEPT !.portfolio.reserves.quantity =
                                    get_balance_update_quantity(position)]
       /\ reserve_call' = [op |-> "update_value", event |-> NoEvent, raised |-> "",
                           before |-> position.balance_updates]
       /\ UNCHANGED <<outside_accounts, onchain, calc, correct, transfers>>

\* apply_accounting_correction called with a check of the reserve position.
apply_accounting_correction_call(expected_amount, actual_amount) ==
    /\ ~Active(calc) /\ ~Active(correct)
    /\ state.portfolio.next_balance_update_id <= MaxBalanceUpdateId
    /\ \E applied \in {apply_accounting_correction(state,
                            AccountingBalanceCheck("USDC", "reserve", expected_amount,
                                actual_amount, DUST_EPSILON, 1, TRUE,
                                abs(actual_amount - expected_amount) > DUST_EPSILON))} :
          /\ state' = applied.state
          /\ reserve_call' = [op |-> "apply_accounting_correction", event |-> applied.evt,
                              raised |-> applied.raised,
                              before |-> state.portfolio.reserves.balance_updates]
    /\ UNCHANGED <<outside_accounts, onchain, calc, correct, transfers>>

\* The deposit events a sync hands to add_balance_update_event.
Deposits ==
    {BalanceUpdate(id, "reserve", "deposit", "USDC", 0, q, 0) :
        id \in 1..MaxBalanceUpdateId, q \in 1..MaxAmount}

(***************************************************************************)
(* Inputs.                                                                 *)
(***************************************************************************)
\* Keys of the grid in declaration order.
GridNames == <<"b", "a">>

ValueLists(V, lo, hi) == UNION {[1..n -> V] : n \in lo..hi}

\* The grid with the first Len(vl) keys and these candidate lists.
Grid(vl) == [i \in 1..Len(vl) |-> [name |-> GridNames[i], values |-> vl[i]]]

Tasks == DOMAIN tpc

InFlight == {i \in DOMAIN tpc : tpc[i] \in {"load", "work", "save", "dump"}}

Failed == {i \in DOMAIN tpc : tpc[i] = "failed"}

Done == {i \in DOMAIN tpc : tpc[i] = "done"}

\* The list perform_grid_search returns: the results in completion order.
results == [k \in 1..Len(order) |-> tres[order[k]]]

IdleSearch ==
    /\ phase = "idle" /\ max_workers = 1 /\ run = 0
    /\ task_args = <<>>
    /\ tpc = <<>> /\ tres = <<>> /\ texc = <<>> /\ calls = <<>> /\ order = <<>>
    /\ error = NoError
    /\ prev = [phase |-> "none", tres |-> <<>>, artifacts |-> {}, disk |-> <<>>]

Init ==
    /\ \E vl \in ValueLists(SearchValues, 1, MaxTasks) : parameters = Grid(<<vl>>)
    /\ result_path \in ResultRoots
    /\ dirs = {} /\ pickles = <<>>
    /\ prep = "none" /\ combinations = <<>>
    /\ IdleSearch
    /\ IdleIndicators
    /\ IdleComponents

InitPrepare ==
    /\ \E n \in 0..Len(GridNames) : \E vl \in [1..n -> ValueLists(Values, 0, MaxValues)] :
          parameters = Grid(vl)
    /\ result_path = Path(TRUE, <<"res">>)
    /\ dirs = {} /\ pickles = <<>>
    /\ prep = "none" /\ combinations = <<>>
    /\ IdleSearch
    /\ IdleIndicators
    /\ IdleComponents

search_vars == <<phase, max_workers, task_args, run, tpc, tres, texc, calls, order, error, prev>>

\* Path.exists for a directory: the working directory and its parents always exist.
exists(dir) == dir \in dirs \/ IsPrefix(dir, Cwd)

\* Path.rmdir raises OSError on a directory that is not empty, and on ".".
rmdir_raises(p) == HasChildren(Resolve(p)) \/ p = Path(FALSE, <<>>)

prepare_grid_combinations(clear_cached_results) ==
    LET root == Resolve(result_path)
        rmdir_fails == clear_cached_results /\ exists(root) /\ rmdir_raises(result_path)
        built == built_combinations(parameters, result_path)
    IN /\ phase # "running" /\ InFlight = {}
       /\ IF rmdir_fails
          THEN /\ prep' = "OSError"
               /\ combinations' = <<>>
               /\ dirs' = dirs
          ELSE /\ dirs' = dirs \cup Prefixes(root)
               /\ IF Len(parameters) = 0
                  THEN prep' = "AssertionError" /\ combinations' = <<>>
                  ELSE IF \E k \in 1..Len(built) : path_raises(built[k])
                  THEN prep' = "NotImplementedError" /\ combinations' = <<>>
                  ELSE prep' = "ok" /\ combinations' = built
       /\ UNCHANGED <<indicator_vars, component_vars, parameters, result_path, pickles, search_vars>>

(***************************************************************************)
(* perform_grid_search and run_grid_combination. One task per entry of the *)
(* combinations list. A task is pending until it is started, then checks   *)
(* has_result and either loads the pickle or runs the worker and saves.    *)
(***************************************************************************)
SetTask(f, i, v) == [f EXCEPT ![i] = v]

perform_grid_search(workers) ==
    /\ prep = "ok"
    /\ phase # "running" /\ InFlight = {}
    /\ run < MaxRuns
    /\ phase' = "running"
    /\ max_workers' = workers
    /\ run' = run + 1
    /\ task_args' = combinations
    /\ tpc' = [i \in DOMAIN combinations |-> "pending"]
    /\ tres' = [i \in DOMAIN combinations |-> NoResult]
    /\ texc' = [i \in DOMAIN combinations |-> NoError]
    /\ calls' = [i \in DOMAIN combinations |-> 0]
    /\ order' = <<>>
    /\ error' = NoError
    /\ prev' = [phase |-> phase, tres |-> IF phase = "returned" THEN tres ELSE <<>>,
                artifacts |-> {i \in DOMAIN combinations :
                                /\ load_location(combinations[i]) \in DOMAIN pickles
                                /\ pickles[load_location(combinations[i])].complete},
                disk |-> pickles]
    /\ UNCHANGED <<indicator_vars, component_vars, parameters, result_path, dirs, pickles, prep, combinations>>

\* A runner that picks any pending task, whatever its place in the list.
may_start_any(i) ==
    /\ tpc[i] = "pending"
    /\ Cardinality(InFlight) < max_workers
    /\ max_workers > 1 \/ Failed = {}

\* Whether the pool (or the starmap iterator) hands task i to a thread now.
may_start(i) ==
    /\ tpc[i] = "pending"
    /\ \A j \in 1..(i - 1) : tpc[j] # "pending"
    /\ Cardinality(InFlight) < max_workers
    /\ max_workers > 1 \/ Failed = {}

\* A runner that queues a failed task again.
task_fails_retry(i, e) ==
    /\ tpc' = SetTask(tpc, i, "pending")
    /\ texc' = SetTask(texc, i, e)

task_fails(i, e) ==
    /\ tpc' = SetTask(tpc, i, "failed")
    /\ texc' = SetTask(texc, i, e)

task_returns(i, r) ==
    /\ tpc' = SetTask(tpc, i, "done")
    /\ tres' = SetTask(tres, i, r)
    /\ order' = Append(order, i)

\* run_grid_combination, line 229: the has_result check.
run_grid_combination_start(i) ==
    /\ phase = "running"
    /\ may_start(i)
    /\ tpc' = SetTask(tpc, i, IF has_result(task_args[i]) THEN "load" ELSE "work")
    /\ UNCHANGED <<indicator_vars, component_vars, parameters, result_path, dirs, pickles, prep, combinations, phase,
                   max_workers, task_args, run, tres, texc, calls, order, error, prev>>

\* GridSearchResult.load: open the pickle, unpickle it and mark it cached.
run_grid_combination_load(i) ==
    LET c == task_args[i]
        at == load_location(c)
    IN /\ tpc[i] = "load"
       /\ IF at \notin DOMAIN pickles
          THEN task_fails(i, PyError("FileNotFoundError", c)) /\ UNCHANGED <<tres, order>>
          ELSE IF ~pickles[at].complete
          THEN task_fails(i, PyError("EOFError", NoCombination)) /\ UNCHANGED <<tres, order>>
          ELSE task_returns(i, [pickles[at].result EXCEPT !.cached = TRUE]) /\ texc' = texc
       /\ UNCHANGED <<indicator_vars, component_vars, parameters, result_path, dirs, pickles, prep, combinations, phase,
                      max_workers, task_args, run, calls, error, prev>>

\* grid_search_worker(universe, combination) returns its result.
run_grid_combination_work(i) ==
    LET c == task_args[i]
    IN /\ tpc[i] = "work"
       /\ calls' = SetTask(calls, i, calls[i] + 1)
       /\ tpc' = SetTask(tpc, i, "save")
       /\ tres' = SetTask(tres, i, GridSearchResult(c, backtest(c), FALSE))
       /\ UNCHANGED <<indicator_vars, component_vars, parameters, result_path, dirs, pickles, prep, combinations, phase,
                   max_workers, task_args, run, texc, order, error, prev>>

\* grid_search_worker(universe, combination) raises; its exception names the
\* combination or not, as the worker chose.
run_grid_combination_work_raises(i) ==
    LET c == task_args[i]
    IN /\ tpc[i] = "work"
       /\ calls' = SetTask(calls, i, calls[i] + 1)
       /\ \E named \in {c, NoCombination} : task_fails(i, PyError("WorkerError", named))
       /\ UNCHANGED <<indicator_vars, component_vars, parameters, result_path, dirs, pickles, prep, combinations, phase,
                   max_workers, task_args, run, tres, order, error, prev>>

\* GridSearchResult.save, lines 151-153: mkdir and open(..., "wb"), which truncates.
save_open(i) ==
    LET at == save_location(tres[i])
    IN /\ tpc[i] = "save"
       /\ dirs' = dirs \cup Prefixes(at)
       /\ pickles' = [f \in DOMAIN pickles \cup {at} |-> IF f = at THEN PartialFile ELSE pickles[f]]
       /\ tpc' = SetTask(tpc, i, "dump")
       /\ UNCHANGED <<indicator_vars, component_vars, parameters, result_path, prep, combinations, phase,
                   max_workers, task_args, run, tres, texc, calls, order, error, prev>>

\* GridSearchResult.save, line 154: pickle.dump writes the whole result.
save_dump(i) ==
    LET at == save_location(tres[i])
    IN /\ tpc[i] = "dump"
       /\ pickles' = [pickles EXCEPT ![at] = CompleteFile(tres[i])]
       /\ task_returns(i, tres[i])
       /\ UNCHANGED <<indicator_vars, component_vars, parameters, result_path, dirs, prep, combinations, phase,
                   max_workers, task_args, run, texc, calls, error, prev>>

\* GridSearchResult.save, line 154: pickle.dump raises part-way (an unpicklable state).
save_dump_raises(i) ==
    /\ tpc[i] = "dump"
    /\ task_fails(i, PyError("PicklingError", NoCombination))
    /\ UNCHANGED <<indicator_vars, component_vars, parameters, result_path, dirs, pickles, prep, combinations, phase,
                   max_workers, task_args, run, tres, calls, order, error, prev>>

\* perform_grid_search returns the list once every task has completed.
perform_grid_search_returns ==
    /\ phase = "running"
    /\ \A i \in Tasks : tpc[i] = "done"
    /\ phase' = "returned"
    /\ UNCHANGED <<indicator_vars, component_vars, parameters, result_path, dirs, pickles, prep, combinations,
                   max_workers, task_args, run, tpc, tres, texc, calls, order, error, prev>>

\* The exception a task raised leaves perform_grid_search as it is.
propagated(e) == e

\* perform_grid_search raises: the starmap iterator, or the task manager under
\* ErrorPolicyEnum.RAISE, passes on the exception of a failed task.
perform_grid_search_raises ==
    /\ phase = "running"
    /\ \E i \in Failed :
          /\ phase' = "raised"
          /\ error' = propagated(texc[i])
    /\ UNCHANGED <<indicator_vars, component_vars, parameters, result_path, dirs, pickles, prep, combinations,
                   max_workers, task_args, run, tpc, tres, texc, calls, order, prev>>

Next ==
    \/ \E clear \in BOOLEAN : prepare_grid_combinations(clear)
    \/ \E workers \in 1..MaxWorkers : perform_grid_search(workers)
    \/ \E i \in DOMAIN tpc : run_grid_combination_start(i)
    \/ \E i \in DOMAIN tpc : run_grid_combination_load(i)
    \/ \E i \in DOMAIN tpc : run_grid_combination_work(i)
    \/ \E i \in DOMAIN tpc : run_grid_combination_work_raises(i)
    \/ \E i \in DOMAIN tpc : save_open(i)
    \/ \E i \in DOMAIN tpc : save_dump(i)
    \/ \E i \in DOMAIN tpc : save_dump_raises(i)
    \/ perform_grid_search_returns
    \/ perform_grid_search_raises

Spec == Init /\ [][Next]_vars

NextPrepare == \E clear \in BOOLEAN : prepare_grid_combinations(clear)

SpecPrepare == InitPrepare /\ [][NextPrepare]_vars

InitIndicators ==
    /\ parameters = <<>> /\ result_path = Path(TRUE, <<"res">>)
    /\ dirs = {} /\ pickles = <<>>
    /\ prep = "none" /\ combinations = <<>>
    /\ IdleSearch
    /\ strategy_universe \in Universes
    /\ indicator_storage = IndicatorStorage(tmp_path, get_cache_key(strategy_universe))
    /\ create_indicators \in Callbacks
    /\ parquet = <<>>
    /\ ind_run = 0
    /\ IdleEngine
    /\ IdleReader
    /\ IdleComponents

NextIndicators ==
    \/ \E universe \in Universes : new_indicator_storage(universe)
    \/ \E workers \in 1..MaxWorkers : calculate_and_load_indicators(workers)
    \/ \E k \in DOMAIN ind_pc : load_indicator(k)
    \/ \E k \in DOMAIN ind_pc : calculate_indicator(k)
    \/ \E k \in DOMAIN ind_pc : calculate_indicator_raises(k)
    \/ \E k \in DOMAIN ind_pc : save_indicator(k)
    \/ \E k \in DOMAIN ind_pc : publish_indicator(k)
    \/ calculate_and_load_indicators_returns
    \/ calculate_and_load_indicators_raises

SpecIndicators == InitIndicators /\ [][NextIndicators]_vars

\* The storage under concurrent use: the workers of one call in the pool, and a
\* reader that checks has(key) and loads at any moment.
InitStorage ==
    /\ parameters = <<>> /\ result_path = Path(TRUE, <<"res">>)
    /\ dirs = {} /\ pickles = <<>>
    /\ prep = "none" /\ combinations = <<>>
    /\ IdleSearch
    /\ strategy_universe \in Universes
    /\ indicator_storage = IndicatorStorage(tmp_path, get_cache_key(strategy_universe))
    /\ create_indicators \in {<<rsi_2>>, <<rsi_2, sma_2>>}
    /\ parquet = <<>>
    /\ ind_run = 0
    /\ IdleEngine
    /\ IdleReader
    /\ IdleComponents

NextStorage ==
    \/ \E workers \in 1..MaxWorkers : calculate_and_load_indicators(workers)
    \/ \E k \in DOMAIN ind_pc : load_indicator(k)
    \/ \E k \in DOMAIN ind_pc : calculate_indicator(k)
    \/ \E k \in DOMAIN ind_pc : save_indicator(k)
    \/ \E k \in DOMAIN ind_pc : publish_indicator(k)
    \/ calculate_and_load_indicators_returns
    \/ \E k \in DOMAIN ind_keys : reader_has(k)
    \/ reader_load

SpecStorage == InitStorage /\ [][NextStorage]_vars

\* The grid search at rest, as the specifications of the other components leave it.
IdleGrid ==
    /\ parameters = <<>> /\ result_path = Path(TRUE, <<"res">>)
    /\ dirs = {} /\ pickles = <<>>
    /\ prep = "none" /\ combinations = <<>>
    /\ IdleSearch

\* The ledgers the corrections start from: a reserve position with or without a
\* deposit, no trading position or one that is open or closed; and the balances the
\* chain reports for the reserve asset and the base token of the pair.
InitAccounts ==
    /\ IdleGrid /\ IdleIndicators
    /\ \E q \in Amounts :
       \E position \in {None, TradingPosition(1, TRUE, 0, <<>>)}
                          \cup {TradingPosition(1, FALSE, t, <<>>) : t \in 1..MaxAmount} :
          state = State(IF q > 0 THEN 2 ELSE 1,
                        ReservePosition(q, IF q > 0
                                           THEN <<BalanceUpdate(1, "reserve", "deposit", "USDC", 0, q, 0)>>
                                           ELSE <<>>),
                        position, <<>>)
    /\ \E assets \in {<<"USDC", "WETH">>, <<"WETH", "USDC">>} :
       \E x \in Amounts : \E y \in Amounts : \E timestamp \in 0..1 :
          onchain = <<AssetBalance(assets[1], x, timestamp), AssetBalance(assets[2], y, timestamp)>>
    /\ calc = NoCalculation
    /\ correct = NoCorrection
    /\ transfers = <<>>
    /\ reserve_call = NoCall
    /\ IdleCrossover /\ IdleModules /\ IdleExecution

NextAccounts ==
    \/ \E all_balances \in BOOLEAN : calculate_account_corrections(all_balances)
    \/ calculate_account_corrections_next
    \/ \E interactive \in BOOLEAN : \E vault \in BOOLEAN : correct_accounts(interactive, vault)
    \/ \E answer \in Answers : correct_accounts_next(answer)

SpecAccounts == InitAccounts /\ [][NextAccounts]_vars

\* The reserve position alone, with the events a sync adds to it.
InitReserve ==
    /\ IdleGrid /\ IdleIndicators
    /\ \E q \in Amounts : \E next_balance_update_id \in 1..MaxBalanceUpdateId :
          state = State(next_balance_update_id, ReservePosition(q, <<>>), None, <<>>)
    /\ onchain = <<>>
    /\ calc = NoCalculation
    /\ correct = NoCorrection
    /\ transfers = <<>>
    /\ reserve_call = NoCall
    /\ IdleCrossover /\ IdleModules /\ IdleExecution

NextReserve == \E event \in Deposits : add_balance_update_event(event)

SpecReserve == InitReserve /\ [][NextReserve]_vars

\* The reserve position with deposits, corrections and revaluations.
NextLedger ==
    \/ \E event \in Deposits : add_balance_update_event(event)
    \/ update_value
    \/ \E expected_amount \in Amounts : \E actual_amount \in Amounts :
          apply_accounting_correction_call(expected_amount, actual_amount)

SpecLedger == InitReserve /\ [][NextLedger]_vars

\* Two series of up to MaxSeries values each and the arguments of a call.
InitCrossover ==
    /\ IdleGrid /\ IdleIndicators /\ IdleAccounts /\ IdleModules /\ IdleExecution
    /\ series1 \in Series(Prices) /\ series2 \in Series(Level)
    /\ lookback_period \in 0..(MaxSeries + 1)
    /\ must_return_index \in BOOLEAN
    /\ crossing = NoCrossing

NextCrossover == contains_cross_over \/ contains_cross_under

SpecCrossover == InitCrossover /\ [][NextCrossover]_vars

\* The module files: every way of defining each of the names.
InitModules ==
    /\ IdleGrid /\ IdleIndicators /\ IdleAccounts /\ IdleCrossover /\ IdleExecution
    /\ \E version \in VersionExports : \E factory \in FactoryExports :
       \E type \in TypeExports : \E cycle \in CycleExports : \E routing \in RoutingExports :
       \E decide \in CallableExports("decide_trades") :
       \E universe \in CallableExports("create_trading_universe") : \E chain \in ChainExports :
          strategy_exports = version \o factory \o type \o cycle \o routing \o decide
                                \o universe \o chain
    /\ loaded = NotLoaded

NextModules == read_strategy_module

SpecModules == InitModules /\ [][NextModules]_vars

\* A portfolio without trades and a fresh hot wallet.
InitExecution ==
    /\ IdleGrid /\ IdleIndicators /\ IdleAccounts /\ IdleCrossover /\ IdleModules
    /\ trades = <<>>
    /\ hot_wallet = [current_nonce |-> 0]
    /\ execution = NoExecution

NextExecution ==
    \/ \E pair \in TradingPairs : \E buy \in BOOLEAN : create_trade(pair, buy)
    \/ \E ts \in 1..MaxClock : execute_trades(ts)
    \/ approve_tokens
    \/ prepare_swaps
    \/ confirm_approvals
    \/ broadcast
    \/ wait_trades_to_complete
    \/ resolve_trades

SpecExecution == InitExecution /\ [][NextExecution]_vars

(***************************************************************************)
(* Properties of the runner.                                               *)
(***************************************************************************)
\* result.pickle exists in the combination's result directory.
ArtifactExists(c) == load_location(c) \in DOMAIN pickles

RECURSIVE SumSeq(_)
SumSeq(f) == IF Len(f) = 0 THEN 0 ELSE Head(f) + SumSeq(Tail(f))

DistinctCombinations(cs) ==
    \A i, j \in DOMAIN cs : i # j => ~combination_eq(cs[i], cs[j])

Writers == {i \in DOMAIN tpc : tpc[i] \in {"work", "save", "dump"}}

\* C1: run_grid_combination loads the artifact and returns it with cached=True,
\* without invoking the worker, if the artifact exists on disk when it is called;
\* otherwise it invokes the worker once, persists the result in the combination's
\* result directory and returns it with cached=False.
C1_RunCombination ==
    [][\A i \in DOMAIN tpc \cap DOMAIN tpc' :
          /\ (tpc[i] = "pending" /\ tpc'[i] # "pending")
                => (tpc'[i] = "load" <=> ArtifactExists(task_args[i]))
          /\ (tpc[i] = "load" /\ tpc'[i] = "done")
                => (tres'[i].cached /\ calls'[i] = 0)
          /\ (tpc[i] = "dump" /\ tpc'[i] = "done")
                => /\ ~tres'[i].cached
                   /\ calls'[i] = 1
                   /\ ArtifactExists(task_args[i])'
                   /\ pickles'[load_location(task_args[i])] = CompleteFile(tres'[i])
      ]_vars

\* C2: perform_grid_search over N distinct combinations of which M have an artifact
\* on disk invokes the worker N-M times, for the combinations without an artifact,
\* and returns N results, M of them cached.
C2_Resumability ==
    (phase = "returned" /\ DistinctCombinations(task_args)) =>
        LET N == Len(task_args)
            M == Cardinality(prev.artifacts)
        IN /\ SumSeq(calls) = N - M
           /\ {i \in Tasks : calls[i] = 1} = Tasks \ prev.artifacts
           /\ Len(results) = N
           /\ Cardinality({i \in Tasks : tres[i].cached}) = M

\* C3: a perform_grid_search that follows a successful one over the same set invokes
\* no worker and returns, for every combination, the result of the first run, cached.
C3_Idempotence ==
    (phase = "returned" /\ prev.phase = "returned") =>
        /\ Len(results) = Len(task_args)
        /\ \A i \in Tasks :
              /\ calls[i] = 0
              /\ tres[i].cached
              /\ tres[i].combination = prev.tres[i].combination
              /\ tres[i].payload = prev.tres[i].payload

\* C4: when the worker raises for a combination, perform_grid_search returns no list
\* and raises an error that identifies that combination.
C4_FailFastNamesCombination ==
    /\ Failed # {} => phase # "returned"
    /\ (phase = "raised" /\ error.type = "WorkerError") =>
          \E i \in Failed : texc[i] = error /\ error.names = task_args[i]

\* C5: in every reachable state, a combination for which has_result is true loads
\* as a complete result.
C5_NoPartialArtifact ==
    \A k \in DOMAIN combinations :
        has_result(combinations[k]) =>
            /\ ArtifactExists(combinations[k])
            /\ pickles[load_location(combinations[k])].complete

\* C6: no two tasks of one perform_grid_search may write the same result path.
C6_OneWriterPerPath ==
    \A i, j \in Writers :
        i # j => load_location(task_args[i]) # load_location(task_args[j])

(***************************************************************************)
(* Properties of prepare_grid_combinations.                                *)
(***************************************************************************)
\* The product of the lengths of the candidate lists.
RECURSIVE grid_size(_)
grid_size(grid) ==
    IF Len(grid) = 0 THEN 1 ELSE Len(Head(grid).values) * grid_size(Tail(grid))

\* One index into every candidate list.
IndexTuples(grid) ==
    {f \in [1..Len(grid) -> 1..MaxValues] : \A i \in 1..Len(grid) : f[i] <= Len(grid[i].values)}

Assignment(grid, f) ==
    [i \in 1..Len(grid) |-> GridParameter(grid[i].name, grid[i].values[f[i]])]

Unsupported(v) == v.type \notin {"int", "float", "str"}

HasUnsupported(grid) ==
    \E i \in 1..Len(grid) : \E j \in 1..Len(grid[i].values) : Unsupported(grid[i].values[j])

NoEmptyList(grid) == \A i \in 1..Len(grid) : Len(grid[i].values) > 0

C8_UniqueResultPaths ==
    prep = "ok" =>
        \A k, m \in DOMAIN combinations :
            ~combination_eq(combinations[k], combinations[m])
                => get_full_result_path(combinations[k]) # get_full_result_path(combinations[m])

\* C9: a grid two of whose combinations derive the same result path makes
\* prepare_grid_combinations fail.
C9_CollisionRejected ==
    LET built == built_combinations(parameters, result_path)
        collides == \E k, m \in DOMAIN built :
                        /\ k # m
                        /\ ~path_raises(built[k]) /\ ~path_raises(built[m])
                        /\ get_full_result_path(built[k]) = get_full_result_path(built[m])
    IN (prep # "none" /\ collides) => prep # "ok"

\* C10 as stated: a grid that holds a value of an unsupported type is rejected by
\* prepare_grid_combinations with the error of validate.
C10_UnsupportedRejected ==
    (prep # "none" /\ HasUnsupported(parameters)) => prep = "NotImplementedError"

\* C10 as amended: a grid that holds a value of an unsupported type, and no empty
\* candidate list, is rejected by prepare_grid_combinations: it raises and returns
\* no combination.
C10_UnsupportedRejectedNoEmptyList ==
    (prep # "none" /\ HasUnsupported(parameters) /\ NoEmptyList(parameters)) =>
        /\ prep \in {"NotImplementedError", "OSError"}
        /\ combinations = <<>>

C10_Witness ==
    /\ prep = "NotImplementedError"
    /\ NoEmptyList(parameters)
    /\ \E i \in 1..Len(parameters) : \E j \in 1..Len(parameters[i].values) :
          parameters[i].values[j] = PyBool(1)

(***************************************************************************)
(* Clearing the result cache, ordering and failures of the runner.         *)
(***************************************************************************)
\* C11: prepare_grid_combinations with clear_cached_results=True returns, and after it
\* the result root exists and has_result is false for every combination it returned.
C11_ClearRemovesResults ==
    [][prepare_grid_combinations(TRUE) =>
          LET cs == combinations'
          IN /\ prep' = "ok"
             /\ exists(Resolve(result_path))'
             /\ \A k \in DOMAIN cs : ~has_result(cs[k])
      ]_vars

\* The result.pickle of a combination is on disk and was written in full.
Persisted(c) == ArtifactExists(c) /\ pickles[load_location(c)].complete

\* C12: with max_workers = 1 a combination is started only when every combination
\* before it in the list has finished and its artifact is persisted, and the list
\* perform_grid_search returns holds the results in the order of the combinations.
C12_SequentialInOrder ==
    [][/\ max_workers = 1 =>
             \A i \in DOMAIN tpc \cap DOMAIN tpc' :
                 (tpc[i] = "pending" /\ tpc'[i] # "pending") =>
                     \A j \in 1..(i - 1) : tpc[j] = "done" /\ Persisted(task_args[j])
       /\ (max_workers' = 1 /\ phase' = "returned") =>
             order' = [k \in 1..Len(task_args') |-> k]
      ]_vars

C12_Witness ==
    /\ max_workers = 1 /\ phase = "returned"
    /\ Len(task_args) = MaxTasks
    /\ order = [k \in 1..MaxTasks |-> k]
    /\ \A i \in Tasks : calls[i] = 1

\* The sequential run (max_workers = 1) of run_grid_combination over a list, from a
\* given disk, when no worker raises: the results in list order, or raised when a
\* load fails.
RECURSIVE sequential_run(_, _)
sequential_run(cs, disk) ==
    IF Len(cs) = 0 THEN [raised |-> FALSE, results |-> <<>>]
    ELSE LET c == Head(cs)
             at == load_location(c)
             hit == has_result_in(disk, c)
         IN IF hit /\ (at \notin DOMAIN disk \/ ~disk[at].complete)
            THEN [raised |-> TRUE, results |-> <<>>]
            ELSE LET r == IF hit THEN [disk[at].result EXCEPT !.cached = TRUE]
                          ELSE GridSearchResult(c, backtest(c), FALSE)
                     after == IF hit THEN disk
                              ELSE [f \in DOMAIN disk \cup {at} |->
                                       IF f = at THEN CompleteFile(r) ELSE disk[f]]
                     rest == sequential_run(Tail(cs), after)
                 IN [raised |-> rest.raised,
                     results |-> IF rest.raised THEN <<>> ELSE <<r>> \o rest.results]

\* Two lists hold the same elements the same number of times: they are equal once sorted.
SameSorted(a, b) ==
    /\ Len(a) = Len(b)
    /\ \A k \in DOMAIN a :
          Cardinality({m \in DOMAIN a : a[m] = a[k]}) = Cardinality({m \in DOMAIN b : b[m] = a[k]})

\* The sequential operator agrees with the stepped run of max_workers = 1.
SequentialRunAgrees ==
    (phase = "returned" /\ max_workers = 1) =>
        LET seq == sequential_run(task_args, prev.disk)
        IN ~seq.raised /\ seq.results = results

\* C13: with max_workers > 1 and no worker raising, perform_grid_search returns one
\* result for every input combination, and the returned results, sorted, equal those
\* the sequential run returns from the same disk, whatever the interleaving.
C13_PoolEqualsSequential ==
    (phase = "returned" /\ max_workers > 1) =>
        LET seq == sequential_run(task_args, prev.disk)
        IN /\ Len(results) = Len(task_args)
           /\ \A i \in Tasks :
                 Cardinality({k \in DOMAIN results : results[k].combination = task_args[i]})
                    = Cardinality({j \in Tasks : task_args[j] = task_args[i]})
           /\ ~seq.raised
           /\ SameSorted(results, seq.results)

\* Some worker of this perform_grid_search raised.
WorkerFailed == \E i \in Tasks : texc[i].type = "WorkerError"

\* C14: once a perform_grid_search in which a worker failed has ended, every artifact
\* that was on disk before it still exists and is complete; and the search that
\* follows a failed one invokes the worker only for combinations without an artifact.
C14_FailureKeepsArtifacts ==
    /\ (phase = "raised" /\ InFlight = {} /\ WorkerFailed) =>
          \A f \in DOMAIN prev.disk :
              prev.disk[f].complete => (f \in DOMAIN pickles /\ pickles[f].complete)
    /\ prev.phase = "raised" =>
          \A i \in Tasks : calls[i] > 0 => i \notin prev.artifacts

\* C15: within one perform_grid_search the worker is invoked at most once for every
\* entry of the combinations list, whether or not an invocation has failed.
C15_NoRetry ==
    \A i \in Tasks : calls[i] <= 1

C15_Witness ==
    /\ phase = "raised" /\ InFlight = {}
    /\ \E i, j \in Tasks :
          /\ tpc[i] = "failed" /\ texc[i].type = "WorkerError" /\ calls[i] = 1
          /\ tpc[j] = "done" /\ calls[j] = 1

\* The result.pickle of a combination is on disk and cannot be unpickled.
Unreadable(c) == ArtifactExists(c) /\ ~pickles[load_location(c)].complete

\* C16: run_grid_combination on a combination whose artifact is present but unreadable
\* takes the load branch and raises, without invoking the worker and without
\* writing the artifact.
C16_UnreadableIsError ==
    [][\A i \in DOMAIN tpc \cap DOMAIN tpc' :
          /\ (tpc[i] = "pending" /\ tpc'[i] # "pending" /\ Unreadable(task_args[i]))
                => tpc'[i] = "load"
          /\ (tpc[i] = "load" /\ tpc'[i] # "load" /\ Unreadable(task_args[i]))
                => /\ tpc'[i] = "failed"
                   /\ texc'[i].type = "EOFError"
                   /\ calls'[i] = 0
                   /\ pickles' = pickles
      ]_vars

(***************************************************************************)
(* Equality and hashing of combinations.                                   *)
(***************************************************************************)
\* A value up to the equality of Python: numbers by their value, the rest as they are.
Canon(v) ==
    IF v.type \in {"int", "float", "bool"} THEN [type |-> "number", num |-> v.num, text |-> ""]
    ELSE v

\* The names and the values of a parameter tuple, in order.
TupleOf(c) ==
    [k \in 1..Len(c.parameters) |->
        [name |-> c.parameters[k].name, value |-> Canon(c.parameters[k].value)]]

\* C17: two combinations are equal exactly when their parameter tuples are equal, the
\* result root changes neither equality nor the hash, and equal combinations have
\* equal hashes.
C17_EqualityByParameters ==
    prep \in {"ok", "NotImplementedError"} =>
        \A built \in {built_combinations(parameters, result_path)} :
        \A hashes \in {[k \in DOMAIN built |-> GridCombination_hash(built[k])]} :
        \A tuples \in {[k \in DOMAIN built |-> TupleOf(built[k])]} :
           /\ \A k, m \in DOMAIN built :
                 /\ combination_eq(built[k], built[m]) <=> (tuples[k] = tuples[m])
                 /\ combination_eq(built[k], built[m]) => hashes[k] = hashes[m]
                 /\ \A root \in ResultRoots :
                       combination_eq(built[k], GridCombination(root, built[m].parameters))
                          <=> combination_eq(built[k], built[m])
           /\ \A m \in DOMAIN built : \A root \in ResultRoots :
                 GridCombination_hash(GridCombination(root, built[m].parameters)) = hashes[m]

C17_Witness ==
    /\ prep = "ok"
    /\ \E k, m \in DOMAIN combinations :
          /\ combinations[k].parameters # combinations[m].parameters
          /\ combination_eq(combinations[k], combinations[m])
          /\ GridCombination_hash(combinations[k]) = GridCombination_hash(combinations[m])

(***************************************************************************)
(* Properties of the indicator engine and storage.                         *)
(***************************************************************************)
\* C18: calculate_and_load_indicators over P pairs and K distinctly named indicators
\* returns P*K results; against an empty storage all of them have cached=False, and
\* the call that follows it with the same storage and universe returns every key
\* with cached=True and the data of the first call, for every max_workers.
C18_IndicatorCacheIdempotence ==
    ind_phase = "returned" =>
        /\ Cardinality({ind_keys[k] : k \in DOMAIN ind_keys})
              = Len(strategy_universe.pairs) * Len(indicator_set)
        /\ DOMAIN indicator_result = DOMAIN ind_keys
        /\ ind_prev.empty => \A k \in DOMAIN ind_keys : ~indicator_result[k].cached
        /\ (ind_prev.phase = "returned" /\ ind_prev.began_empty) =>
              \A k \in DOMAIN ind_keys :
                  /\ indicator_result[k].cached
                  /\ indicator_result[k].data = ind_prev.result[k].data

\* C19: through a storage with one universe key, has(key) and load(key) see only
\* artifacts that were saved through a storage with that universe key.
C19_UniverseKeyIsolation ==
    \A k \in DOMAIN ind_keys :
        /\ IndicatorStorage_has(indicator_storage, ind_keys[k]) =>
              parquet[artifact(indicator_storage, ind_keys[k])].universe_key
                 = indicator_storage.universe_key
        /\ indicator_result[k].cached =>
              indicator_result[k].universe_key = indicator_storage.universe_key

C19_Witness ==
    /\ ind_phase = "returned"
    /\ \E k \in DOMAIN ind_keys :
          LET at == artifact(indicator_storage, ind_keys[k])
          IN /\ indicator_result[k].cached
             /\ \E f \in DOMAIN parquet :
                   /\ parquet[f].universe_key # indicator_storage.universe_key
                   /\ f[Len(f)] = at[Len(at)]

\* C20: the artifact path of a key is <root>/<universe_key>/<name>(<k1>=<v1>,...)-
\* <BASE>-<QUOTE>.parquet with the parameters in insertion order, and distinct
\* (definition, pair) keys have distinct paths.
C20_ArtifactPath ==
    /\ \A k \in DOMAIN ind_keys :
          (ind_keys[k].definition.name = "sma" /\ ind_keys[k].pair = wbtc_usdc) =>
              artifact(indicator_storage, ind_keys[k])
                 = <<"/", "tmp", indicator_storage.universe_key,
                     "sma(length=2,offset=1)-WBTC-USDC.parquet">>
    /\ \A j, k \in DOMAIN ind_keys :
          ind_keys[j] # ind_keys[k] =>
              artifact(indicator_storage, ind_keys[j]) # artifact(indicator_storage, ind_keys[k])

\* The registrations of the callback that pass a parameter name their function does
\* not have.
Rejected ==
    {create_indicators[i] : i \in {j \in DOMAIN create_indicators :
        \E n \in DOMAIN create_indicators[j].parameters :
            create_indicators[j].parameters[n].name \notin accepted(create_indicators[j].func)}}

\* The artifacts of a definition, in the storage of any universe.
ArtifactsOf(ind) ==
    UNION {{artifact(IndicatorStorage(tmp_path, get_cache_key(u)), IndicatorKey(u.pairs[i], ind)) :
               i \in DOMAIN u.pairs} : u \in Universes}

\* C21: constructing an IndicatorDefinition with a parameter name its function does
\* not accept fails with IndicatorFunctionSignatureMismatch at construction; no
\* definition with that name enters the indicator set and nothing is computed or
\* cached for it.
C21_SignatureMismatchNotRegistered ==
    \A ind \in Rejected :
        ind_phase # "idle" =>
            /\ ind_phase = "raised"
            /\ ind_error.type = IndicatorFunctionSignatureMismatch
            /\ ind_error.definition = ind
            /\ \A i \in DOMAIN indicator_set : indicator_set[i].name # ind.name
            /\ \A k \in DOMAIN ind_keys : ind_keys[k].definition.name # ind.name
            /\ ArtifactsOf(ind) \cap DOMAIN parquet = {}

C21_Witness ==
    /\ Rejected # {}
    /\ ind_phase = "raised"
    /\ ind_error.type = IndicatorFunctionSignatureMismatch
    /\ Len(indicator_set) = 1

\* The names the callback registers.
RegisteredNames == {create_indicators[i].name : i \in DOMAIN create_indicators}

\* The last registration of a name in the callback.
LastRegistration(name) ==
    create_indicators[CHOOSE i \in DOMAIN create_indicators :
        /\ create_indicators[i].name = name
        /\ \A j \in DOMAIN create_indicators : create_indicators[j].name = name => j <= i]

\* C24: registering two indicators under one name is not an error; the later
\* registration replaces the earlier one, the set holds exactly one definition per
\* name and the engine builds one result per pair for that name.
C24_LastRegistrationWins ==
    (Rejected = {} /\ ind_phase # "idle") =>
        /\ ind_error.type # IndicatorFunctionSignatureMismatch
        /\ \A name \in RegisteredNames :
              /\ Cardinality({i \in DOMAIN indicator_set : indicator_set[i].name = name}) = 1
              /\ \E i \in DOMAIN indicator_set : indicator_set[i] = LastRegistration(name)
              /\ \A p \in DOMAIN strategy_universe.pairs :
                    Cardinality({k \in DOMAIN ind_keys :
                        /\ ind_keys[k].pair = strategy_universe.pairs[p]
                        /\ ind_keys[k].definition.name = name}) = 1
        /\ DOMAIN indicator_result = DOMAIN ind_keys
        /\ ind_phase = "returned" =>
              \A k \in DOMAIN ind_keys :
                  indicator_result[k].data.parameters = LastRegistration(ind_keys[k].definition.name).parameters

C24_Witness ==
    /\ Cardinality(RegisteredNames) < Len(create_indicators)
    /\ ind_phase = "returned"
    /\ Len(strategy_universe.pairs) = 2
    /\ Len(indicator_result) = 2

\* The files of the storage tree that are cut short, temporary files included.
PartialArtifacts == {f \in DOMAIN parquet : ~parquet[f].complete}

\* C22: when a registered indicator function raises during
\* calculate_and_load_indicators, the unit of work fails, no partially written
\* artifact exists for any key afterwards, the artifacts saved for other keys hold
\* their computed data, and the error the caller gets names the failing pair and
\* indicator.
C22_FailedUnitLeavesCacheIntact ==
    (ind_phase = "raised" /\ ind_error.type = "IndicatorCalculationFailed") =>
        /\ PartialArtifacts = {}
        /\ \E k \in DOMAIN ind_keys :
              /\ ind_pc[k] = "failed"
              /\ ind_error.key = ind_keys[k]
              /\ ind_error.key.pair = ind_keys[k].pair
              /\ ind_error.definition = ind_keys[k].definition
              /\ function_raises(ind_keys[k].definition.func)
        /\ \A k \in DOMAIN ind_keys :
              /\ ind_pc[k] = "failed" => indicator_result[k] = NoIndicatorResult
              /\ ind_pc[k] = "done" =>
                    /\ IndicatorStorage_has(indicator_storage, ind_keys[k])
                    /\ parquet[artifact(indicator_storage, ind_keys[k])].complete

\* A call that raised after a worker had saved the artifact of another key.
C22_Witness ==
    /\ ind_phase = "raised"
    /\ ind_error.type = "IndicatorCalculationFailed"
    /\ \E k \in DOMAIN ind_keys : ind_pc[k] = "done" /\ ~indicator_result[k].cached
    /\ \E k \in DOMAIN ind_keys : ind_pc[k] = "failed"

\* A reader for which has(key) is true finds a complete artifact.
ReadersSeeComplete ==
    /\ observed # "partial"
    /\ \A k \in DOMAIN ind_keys :
          IndicatorStorage_has(indicator_storage, ind_keys[k]) =>
              parquet[artifact(indicator_storage, ind_keys[k])].complete

\* The artifact of a key a worker of this call has saved holds the data of that key.
WritersKeepApart ==
    \A k \in DOMAIN ind_keys :
        (ind_pc[k] = "done" /\ ~indicator_result[k].cached) =>
            parquet[artifact(indicator_storage, ind_keys[k])].data
                = calculate(strategy_universe, ind_keys[k])

\* C23: save(key, data) publishes atomically: in every interleaving of the writer of
\* a key with concurrent readers, a reader for which has(key) is true never observes
\* a truncated or partial artifact, and writers of different keys never interfere
\* with each other.
C23_AtomicPublish == ReadersSeeComplete /\ WritersKeepApart

(***************************************************************************)
(* Properties of the account corrections and the reserve position.         *)
(***************************************************************************)
\* The operator was prompted by this correct_accounts call.
Prompted == correct.interactive /\ correct.pc \notin {"idle", "created"}

\* The call raised AccountingCorrectionAborted and changed nothing: the state
\* (positions, balance updates, next_balance_update_id, accounting refs) and the
\* transfers are those of the moment it was called, and it yielded no BalanceUpdate.
Aborted ==
    /\ correct.pc = "raised"
    /\ correct.error = "AccountingCorrectionAborted"
    /\ correct.yielded = <<>>
    /\ state = correct.before.state
    /\ transfers = correct.before.transfers

\* C25: when correct_accounts runs with interactive=True and the operator's answer
\* is anything other than "y", it raises AccountingCorrectionAborted and applies none
\* of the corrections: the state is unchanged and no asset is transferred.
C25_AbortedCorrection == (Prompted /\ correct.answer # "y") => Aborted

\* C25 as the code has it: the answer is lowercased before it is compared, so "Y"
\* confirms as "y" does; every answer that differs from "y" after lowercasing aborts.
C25_AbortedCorrectionLowercased == (Prompted /\ lower(correct.answer) # "y") => Aborted

\* The operator declined corrections that were waiting to be applied.
C25_Witness ==
    /\ Prompted /\ correct.answer = "n"
    /\ Aborted
    /\ \E i \in DOMAIN correct.corrections : correct.corrections[i].mismatch

\* The quantity the ledger holds for an asset: that of the reserve position for the
\* reserve asset, that of the trading position of the asset, 0 without a position.
LedgerQuantity(st, asset) ==
    IF asset \in reserve_assets THEN st.portfolio.reserves.quantity
    ELSE IF st.portfolio.position.kind = "trading"
         THEN st.portfolio.position.traded
                 + SumSeq([i \in 1..Cardinality(DOMAIN st.portfolio.position.balance_updates) |->
                             LET ids == DOMAIN st.portfolio.position.balance_updates
                                 id == CHOOSE d \in ids : Cardinality({e \in ids : e < d}) = i - 1
                             IN st.portfolio.position.balance_updates[id].quantity])
         ELSE 0

\* The difference between chain and ledger for the i-th fetched balance.
Difference(i) ==
    calc.asset_balances[i].amount - LedgerQuantity(calc.ledger, calc.asset_balances[i].asset)

\* The fetched balances the generator has gone through, and those of them it owes a
\* check for.
Processed == 1..(calc.next - 1)

Selected == {i \in Processed : calc.all_balances \/ abs(Difference(i)) > DUST_EPSILON}

ClosedAt ==
    {i \in DOMAIN calc.asset_balances :
        /\ calc.asset_balances[i].asset \notin reserve_assets
        /\ calc.ledger.portfolio.position.kind = "trading"
        /\ calc.ledger.portfolio.position.asset = calc.asset_balances[i].asset
        /\ calc.ledger.portfolio.position.closed}

\* C27: calculate_account_corrections raises UnexpectedAccountingCorrectionIssue
\* when an on-chain token balance maps to a trading position that is already closed:
\* the generator never gets past that balance, never ends normally, and yields no
\* check for that asset or for an asset after it; it raises nothing else.
C27_ClosedPositionRaises ==
    /\ \A i \in ClosedAt :
          /\ calc.next <= i
          /\ calc.pc # "returned"
          /\ calc.next = i => calc.pc \in {"suspended", "raised"}
          /\ \A j \in DOMAIN calc.yielded : \A m \in i..Len(calc.asset_balances) :
                calc.yielded[j].asset # calc.asset_balances[m].asset
    /\ calc.pc = "raised" =>
          /\ calc.error = "UnexpectedAccountingCorrectionIssue"
          /\ calc.next \in ClosedAt

\* A scan that yielded the check of the reserve and then raised at the closed position.
C27_Witness ==
    /\ calc.pc = "raised"
    /\ calc.next = 2
    /\ Len(calc.yielded) = 1
    /\ calc.asset_balances[2].amount > DUST_EPSILON

\* C28: ReservePosition.add_balance_update_event raises
\* BalanceUpdateEventAlreadyAdded when the balance_update_id of the event is already
\* in balance_updates and leaves balance_updates unchanged; otherwise it stores the
\* event under its id. No call changes the event stored under an id, so every id
\* maps to the first event added with it.
C28_DuplicateEventRejected ==
    [][LET before == state.portfolio.reserves.balance_updates
           after == state'.portfolio.reserves.balance_updates
           call == reserve_call'
       IN call.op = "add_balance_update_event" =>
             /\ call.before = before
             /\ IF call.event.balance_update_id \in DOMAIN before
                THEN /\ call.raised = "BalanceUpdateEventAlreadyAdded"
                     /\ after = before
                ELSE /\ call.raised = ""
                     /\ DOMAIN after = DOMAIN before \cup {call.event.balance_update_id}
                     /\ after[call.event.balance_update_id] = call.event
             /\ \A id \in DOMAIN before : id \in DOMAIN after /\ after[id] = before[id]]_vars

\* An event was rejected whose id holds an event with another quantity.
C28_Witness ==
    /\ reserve_call.op = "add_balance_update_event"
    /\ reserve_call.raised = "BalanceUpdateEventAlreadyAdded"
    /\ state.portfolio.reserves.balance_updates[reserve_call.event.balance_update_id]
          # reserve_call.event
    /\ state.portfolio.reserves.balance_updates = reserve_call.before

(***************************************************************************)
(* Properties of the crossover detection.                                  *)
(***************************************************************************)
\* The lookback window: the last lookback_period elements of a series, clipped to
\* the length of the shorter series.
WindowLength == min(lookback_period, min(Len(series1), Len(series2)))

Window(series) == SubSeq(series, Len(series) - WindowLength + 1, Len(series))

\* The window positions where series1 crosses series2 in the direction of the call:
\* series1 is beyond series2 there, was on the other side at an earlier position of
\* the window, and was not beyond it in between.
Crosses ==
    LET beyond == IF crossing.op = "contains_cross_over" THEN "gt" ELSE "lt"
        before == IF crossing.op = "contains_cross_over" THEN "lt" ELSE "gt"
        w1 == Window(series1)
        w2 == Window(series2)
    IN {i \in 1..WindowLength :
           /\ compare(beyond, w1[i], w2[i])
           /\ \E j \in 1..(i - 1) :
                 /\ compare(before, w1[j], w2[j])
                 /\ \A k \in (j + 1)..(i - 1) : ~compare(beyond, w1[k], w2[k])}

\* The negative index of a window position: -1 is the latest element.
NegativeIndex(i) == i - 1 - WindowLength

Latest(positions) == CHOOSE i \in positions : \A j \in positions : j <= i

\* What the claim lets a call return.
ReturnsLatestCross ==
    IF must_return_index
    THEN crossing.returned
            = Returned(<<PyBool(IF Crosses # {} THEN 1 ELSE 0),
                         IF Crosses # {} THEN PyInt(NegativeIndex(Latest(Crosses))) ELSE PyNone>>)
    ELSE crossing.returned = Returned(<<PyBool(IF Crosses # {} THEN 1 ELSE 0)>>)

\* C29: contains_cross_over and contains_cross_under with must_return_index=True
\* return (True, i), i the negative index (-1 = latest element) of the latest
\* crossover inside the lookback window, and (False, None) when the window contains
\* no crossover; with must_return_index=False they return only the boolean.
C29_ReturnsLatestCrossIndex == crossing.op # "none" => ReturnsLatestCross

\* The same with a lookback window of at least one element.
ReturnsLatestCrossPositive == (crossing.op # "none" /\ lookback_period >= 1) => ReturnsLatestCross

(***************************************************************************)
(* Strategy module claims.                                                 *)
(***************************************************************************)
\* The value the module file gives a name, whatever the case it is written in: the
\* last definition counts.
Definitions(key) == {i \in DOMAIN strategy_exports : lower(strategy_exports[i].name) = key}

Declared(key, default) ==
    IF Definitions(key) = {} THEN default
    ELSE strategy_exports[CHOOSE i \in Definitions(key) : \A j \in Definitions(key) : j <= i].value

DeclaredVersion == Declared("trading_strategy_engine_version", PyNone)

UnsupportedVersion ==
    \/ DeclaredVersion.type # "str"
    \/ DeclaredVersion.text \notin SUPPORTED_TRADING_STRATEGY_ENGINE_VERSIONS

NotValid ==
    \/ UnsupportedVersion
    \/ Declared("trading_strategy_cycle", PyNone).type # "CycleDuration"
    \/ Declared("trade_routing", Instance("TradeRouting")).type # "TradeRouting"
    \/ Declared("decide_trades", PyNone).type # "function"
    \/ Declared("create_trading_universe", PyNone).type # "function"

\* C30: read_strategy_module on a module without a trading_strategy_engine_version
\* returns its strategy_factory export, or raises StrategyModuleNotValid when it has
\* neither; a module with a version is returned as StrategyModuleInformation only
\* when validate passed, and the call raises StrategyModuleNotValid when the version
\* is not a supported string, trading_strategy_cycle is not a CycleDuration,
\* trade_routing is not a TradeRouting, or decide_trades / create_trading_universe
\* are not callables; the names are matched whatever their case.
C30_ReadStrategyModule ==
    loaded.op = "read_strategy_module" =>
        IF DeclaredVersion.type = "NoneType"
        THEN IF Declared("strategy_factory", PyNone).type = "NoneType"
             THEN loaded.raised = "StrategyModuleNotValid" /\ loaded.kind = "none"
             ELSE /\ loaded.raised = ""
                  /\ loaded.kind = "StrategyFactory"
                  /\ loaded.value = Declared("strategy_factory", PyNone)
        ELSE /\ loaded.kind # "StrategyFactory"
             /\ loaded.kind = "StrategyModuleInformation" =>
                   /\ loaded.raised = ""
                   /\ validate(loaded.info) = ""
                   /\ ~NotValid
                   /\ loaded.info.trading_strategy_engine_version = DeclaredVersion
                   /\ loaded.info.trading_strategy_cycle = Declared("trading_strategy_cycle", PyNone)
                   /\ loaded.info.decide_trades = Declared("decide_trades", PyNone)
             /\ NotValid => loaded.raised = "StrategyModuleNotValid" /\ loaded.kind = "none"

\* A module that writes its names in upper case is returned as
\* StrategyModuleInformation.
C30_Witness ==
    /\ loaded.kind = "StrategyModuleInformation"
    /\ \E i \in DOMAIN strategy_exports :
          strategy_exports[i].name = "TRADING_STRATEGY_ENGINE_VERSION"
    /\ \E i \in DOMAIN strategy_exports : strategy_exports[i].name = "TRADING_STRATEGY_CYCLE"

\* A module without a version returns the factory it exports in upper case.
C30_LegacyWitness ==
    /\ loaded.kind = "StrategyFactory"
    /\ \E i \in DOMAIN strategy_exports : strategy_exports[i].name = "STRATEGY_FACTORY"

(***************************************************************************)
(* Trade execution claims.                                                 *)
(***************************************************************************)
Executed == {execution.trades[k] : k \in DOMAIN execution.trades}

ApprovedFor(i) ==
    \E a \in DOMAIN execution.approvals : execution.approvals[a].token = spent_token(trades[i])

ConfirmedFor(i) ==
    \E a \in DOMAIN execution.approvals :
        /\ execution.approvals[a].token = spent_token(trades[i])
        /\ execution.approvals[a].confirmed

\* The call that ran in this step of execute_trades.
Ran(call) == execution'.done = Append(execution.done, call)

StatusOrder ==
    \A i \in DOMAIN trades :
        i \in DOMAIN trades' /\ trades'[i].status # trades[i].status =>
            \/ trades[i].status = "planned" /\ trades'[i].status = "started" /\ Ran("prepare_swaps")
            \/ trades[i].status = "started" /\ trades'[i].status = "broadcasted" /\ Ran("broadcast")
            \/ trades[i].status = "broadcasted" /\ trades'[i].status = "success" /\ Ran("resolve_trades")

ApprovedBeforePrepared ==
    \A i \in Executed :
        /\ trades[i].status # "planned" => ApprovedFor(i)
        /\ trades[i].status \in {"broadcasted", "success"} => ConfirmedFor(i)
        /\ trades[i].status = "success" => i \in execution.receipts

C32_OneArtifactLocation ==
    \A i \in DOMAIN combinations :
        LET c == combinations[i]
        IN /\ load_location(c) = save_location(GridSearchResult(c, backtest(c), FALSE))
           /\ has_result(c) <=> load_location(c) \in DOMAIN pickles

\* The positions j < i of the window with series1 below series2 at j and above it at i.
Below == {j \in 1..WindowLength : Window(series1)[j] < Window(series2)[j]}

Above == {i \in 1..WindowLength : Window(series1)[i] > Window(series2)[i]}

\* The latest position below that has a position above after it, and the first
\* position above after it.
LatestBelow == Latest({j \in Below : \E i \in Above : j < i})

FirstAboveAfter(j) == CHOOSE i \in Above : i > j /\ \A k \in Above : k > j => i <= k

CrossoverScan ==
    LET has == \E j \in Below : \E i \in Above : j < i
    IN /\ crossing.returned.items[1] = PyBool(IF has THEN 1 ELSE 0)
       /\ must_return_index =>
             /\ crossing.returned.items[2]
                   = IF has THEN PyInt(NegativeIndex(FirstAboveAfter(LatestBelow))) ELSE PyNone
             /\ crossing.returned.items[2] # PyInt(NegativeIndex(1))

\* C33: over the last lookback_period elements of the two series (clipped to the
\* shorter series' length) contains_cross_over returns True iff the window has
\* positions j < i with series1[j] < series2[j] and series1[i] > series2[i]; the
\* first window element is never reported, and the reported index is that of the
\* first series1 > series2 position after the latest series1 < series2 position
\* that has one.
C33_CrossoverScan == crossing.op = "contains_cross_over" => CrossoverScan

\* The same with a lookback window of at least one element.
CrossoverScanPositive ==
    (crossing.op = "contains_cross_over" /\ lookback_period >= 1) => CrossoverScan

\* The index a call reported, PyNone without a cross or without must_return_index.
ReportedIndex(returned) == IF returned.tuple THEN returned.items[2] ELSE PyNone

Mirror ==
    /\ crossing.returned
          = cross_check(series2, series1, lookback_period, must_return_index, "gt", "lt")
    /\ \A over \in {cross_check(series1, series2, lookback_period, must_return_index, "gt", "lt")} :
          ReportedIndex(crossing.returned) # PyNone
             => ReportedIndex(over) # ReportedIndex(crossing.returned)

\* C34: contains_cross_under(s1, s2) returns the same boolean and the same index as
\* contains_cross_over(s2, s1) for every lookback_period, and the two never report a
\* cross at the same index for the same argument order.
C34_MirrorImages == crossing.op = "contains_cross_under" => Mirror

\* The same with a lookback window of at least one element.
MirrorImagesPositive ==
    (crossing.op = "contains_cross_under" /\ lookback_period >= 1) => Mirror

\* The corrections the iteration has gone past, those of them with a position and
\* those without.
Corrected == 1..(correct.next - 1)

WithPosition == {i \in Corrected : correct.corrections[i].position # "none"}

WithoutPosition == {i \in Corrected : correct.corrections[i].position = "none"}

\* The k-th member of a set of indexes.
Nth(indexes, k) == CHOOSE i \in indexes : Cardinality({m \in indexes : m < i}) = k - 1

SentAway == SubSeq(transfers, Len(correct.before.transfers) + 1, Len(transfers))

LazyInOrder ==
    /\ correct.pc = "created" =>
          /\ state = correct.before.state
          /\ transfers = correct.before.transfers
          /\ correct.yielded = <<>>
    /\ correct.pc \in {"suspended", "returned", "raised"} =>
          /\ Len(correct.yielded) = Cardinality(WithPosition)
          /\ \A k \in DOMAIN correct.yielded :
                /\ correct.yielded[k].asset = correct.corrections[Nth(WithPosition, k)].asset
                /\ correct.yielded[k].quantity
                      = AccountingBalanceCheck_quantity(correct.corrections[Nth(WithPosition, k)])
          /\ Len(SentAway) = Cardinality(WithoutPosition)
          /\ \A k \in DOMAIN SentAway :
                SentAway[k] = correct.corrections[Nth(WithoutPosition, k)].asset
          /\ Len(state.sync.accounting.balance_update_refs)
                = Len(correct.before.state.sync.accounting.balance_update_refs)
                     + Len(correct.yielded)
          /\ (\A i \in DOMAIN correct.corrections : correct.corrections[i].position = "none")
                => state = correct.before.state
    /\ correct.pc = "returned" => correct.next = Len(correct.corrections) + 1

\* A correction without a position never ends the iteration: it is transferred away.
TransferredAway ==
    (correct.pc = "raised" /\ correct.error # "AccountingCorrectionAborted") =>
        correct.corrections[correct.next].position # "none"

\* C35: correct_accounts applies nothing until its iterator is advanced; advanced to
\* the end it yields one BalanceUpdate for every correction with a position, in list
\* order, and every correction without a position is transferred away, yields no
\* BalanceUpdate and changes nothing in the ledger.
C35_LazyInListOrder == LazyInOrder /\ TransferredAway

\* The same with a vault to send the transfers through.
LazyInListOrderWithVault == correct.vault => (LazyInOrder /\ TransferredAway)

\* The balance updates of the ledger: those of the reserve position and those of the
\* trading position.
EventsOf(st, ref) ==
    IF ref = "trading" /\ st.portfolio.position.kind # "trading" THEN <<>>
    ELSE position_of(st, ref).balance_updates

EventIds(st) == DOMAIN EventsOf(st, "reserve") \cup DOMAIN EventsOf(st, "trading")

\* One id was consumed: one position got the event under the old value of the
\* counter, no other event changed, and one BalanceEventRef with that id was appended.
ConsumesOneId ==
    LET event_id == state.portfolio.next_balance_update_id
        refs == state.sync.accounting.balance_update_refs
        refs_after == state'.sync.accounting.balance_update_refs
    IN /\ state'.portfolio.next_balance_update_id = event_id + 1
       /\ event_id \notin EventIds(state)
       /\ \E ref \in {"reserve", "trading"} : \A other \in {"reserve", "trading"} \ {ref} :
             /\ DOMAIN EventsOf(state', ref) = DOMAIN EventsOf(state, ref) \cup {event_id}
             /\ EventsOf(state', ref)[event_id].balance_update_id = event_id
             /\ \A id \in DOMAIN EventsOf(state, ref) :
                   EventsOf(state', ref)[id] = EventsOf(state, ref)[id]
             /\ EventsOf(state', other) = EventsOf(state, other)
       /\ Len(refs_after) = Len(refs) + 1
       /\ SubSeq(refs_after, 1, Len(refs)) = refs
       /\ refs_after[Len(refs_after)].balance_event_id = event_id

\* The ids of the appended references grow strictly, and every event is stored under
\* its own id, below the counter.
DistinctIncreasingIds ==
    /\ \A i, j \in DOMAIN state.sync.accounting.balance_update_refs :
          i < j => state.sync.accounting.balance_update_refs[i].balance_event_id
                      < state.sync.accounting.balance_update_refs[j].balance_event_id
    /\ \A ref \in {"reserve", "trading"} : \A id \in DOMAIN EventsOf(state, ref) :
          /\ EventsOf(state, ref)[id].balance_update_id = id
          /\ id < state.portfolio.next_balance_update_id
    /\ DOMAIN EventsOf(state, "reserve") \cap DOMAIN EventsOf(state, "trading") = {}

\* C36: every apply_accounting_correction call consumes next_balance_update_id once
\* (the event gets the old value, the counter grows by 1), stores the event in the
\* corrected position under that id and appends one BalanceEventRef with the same id;
\* the ids are pairwise distinct and strictly increasing and no stored balance update
\* is overwritten.
C36_CorrectionConsumesOneId ==
    /\ []DistinctIncreasingIds
    /\ [][state' # state => ConsumesOneId]_vars

\* The same for the calls that return their BalanceUpdate.
ReturnedCorrectionConsumesOneId ==
    /\ []DistinctIncreasingIds
    /\ [][(state' # state /\ correct'.pc # "raised") => ConsumesOneId]_vars

\* This step returned the BalanceUpdate of a correction of the reserve position.
ReserveCorrected ==
    /\ Len(correct'.yielded) = Len(correct.yielded) + 1
    /\ correct'.yielded[Len(correct'.yielded)].position_type = "reserve"

\* The check a new calculation yields for the i-th of the on-chain balances.
Recalculated(st, asset_balances, i) ==
    calculate_account_corrections_from(st, asset_balances, DUST_EPSILON, TRUE, i).check

AdjustsToOnchain ==
    \A correction \in {correct.corrections[correct'.next - 1]} :
        correction.expected_amount = state.portfolio.reserves.quantity =>
            /\ state'.portfolio.reserves.quantity = correction.actual_amount
            /\ \A i \in DOMAIN onchain' :
                  onchain'[i].asset = correction.asset =>
                      /\ onchain'[i].amount = correction.actual_amount
                      /\ Recalculated(state', onchain', i).asset = correction.asset
                      /\ ~Recalculated(state', onchain', i).mismatch

\* C37: after apply_accounting_correction on a reserve position whose
\* expected_amount was the quantity of the position, the quantity of the position is
\* the actual_amount of the correction, and a new calculate_account_corrections
\* against the unchanged on-chain balance reports no mismatch for the asset.
C37_CorrectionAdjustsLedger == [][ReserveCorrected => AdjustsToOnchain]_vars

\* A reserve that held 0 was corrected to the 2 the chain reports.
C37_Witness ==
    /\ correct.runs = 1 /\ correct.pc = "returned"
    /\ \E k \in DOMAIN correct.yielded :
          correct.yielded[k].position_type = "reserve" /\ correct.yielded[k].quantity = 2
    /\ correct.before.state.portfolio.reserves.quantity = 0
    /\ state.portfolio.reserves.quantity = 2
    /\ \E i \in DOMAIN onchain : onchain[i].asset = "USDC" /\ onchain[i].amount = 2

\* The sum of the quantities of the balance updates of the reserve position.
EventTotal(st) ==
    SumSeq([k \in 1..Cardinality(DOMAIN st.portfolio.reserves.balance_updates) |->
               st.portfolio.reserves.balance_updates[
                   Nth(DOMAIN st.portfolio.reserves.balance_updates, k)].quantity])

Consistent(st) == st.portfolio.reserves.quantity = EventTotal(st)

\* C38: ReservePosition.update_value sets quantity to the sum of the quantities of
\* all balance update events, and apply_accounting_correction on a reserve position
\* keeps quantity equal to that sum whenever it was equal before the call, so an
\* update_value right after the correction does not change the quantity.
C38_QuantityFollowsEvents ==
    [][/\ reserve_call'.op = "update_value" =>
             /\ Consistent(state')
             /\ state'.portfolio.reserves.balance_updates
                   = state.portfolio.reserves.balance_updates
       /\ (/\ reserve_call'.op = "apply_accounting_correction"
           /\ Consistent(state)) =>
             /\ Consistent(state')
             /\ get_balance_update_quantity(state'.portfolio.reserves)
                   = state'.portfolio.reserves.quantity]_vars

\* A correction of a consistent reserve with deposits took its quantity down to the
\* on-chain balance.
C38_Witness ==
    /\ reserve_call.op = "apply_accounting_correction"
    /\ reserve_call.raised = ""
    /\ reserve_call.event.quantity < 0
    /\ Cardinality(DOMAIN state.portfolio.reserves.balance_updates) >= 2
    /\ Consistent(state)
    /\ state.portfolio.reserves.quantity > 0

\* What load(c) finds on a disk: the file at c's result location, if any.
Loadable(disk, c) == IF load_location(c) \in DOMAIN disk THEN {disk[load_location(c)]} ELSE {}

\* The tasks whose run_grid_combination writes in this step.
Saving == {i \in DOMAIN tpc : tpc[i] \in {"save", "dump"} /\ tpc'[i] # tpc[i]}

\* The combinations a step of task i must leave alone, given which ones count as others.
Untouched(i, others) ==
    \A j \in others :
        /\ has_result_in(pickles', combinations[j]) <=> has_result_in(pickles, combinations[j])
        /\ Loadable(pickles', combinations[j]) = Loadable(pickles, combinations[j])

\* C39: run_grid_combination for combination c changes nothing outside c's own result
\* directory: for every other combination c' # c, has_result(c') and the content
\* load(c') reads are the same before and after each step of the run, in every
\* interleaving of the pooled workers.
C39_FrameOfRun ==
    [][\A i \in Saving :
          Untouched(i, {j \in DOMAIN combinations :
                           ~combination_eq(combinations[j], task_args[i])})]_vars

\* The same frame for the combinations whose result directory is another one.
FrameOfRunOtherDirectory ==
    [][\A i \in Saving :
          Untouched(i, {j \in DOMAIN combinations :
                           load_location(combinations[j]) # load_location(task_args[i])})]_vars

====
